---- MODULE Spec2Model ----
(***************************************************************************)
(* Model of the portable (no intrinsic 128-bit integer) build of the       *)
(* abslint128 library: uint128_t / int128_t arithmetic, shifts and the     *)
(* shift-subtract division of src/src/int128.cpp.                          *)
(*                                                                         *)
(* Machine integers keep their real width.  A uint64_t is a little-endian  *)
(* tuple of 8 bytes (digits 0..255), so that every limb operation wraps at *)
(* 2^64 exactly as the C++ unsigned arithmetic does.  Mathematical         *)
(* (unbounded) integers that the properties refer to are digit tuples as   *)
(* well, wide enough that no operation on them ever wraps.                 *)
(***************************************************************************)
EXTENDS Integers, Sequences, FiniteSets, TLC

\* ------------------------------------------------------------------------
\* Digit-tuple arithmetic: the semantics of the C++ unsigned machine
\* operators on a value of Len(a) bytes (wrapping at 256^Len(a)).
\* ------------------------------------------------------------------------

\* Number of bytes of a uint64_t limb.
LimbLen == 8

RECURSIVE Digits(_, _)
Digits(n, len) ==
  IF len = 0 THEN <<>> ELSE <<n % 256>> \o Digits(n \div 256, len - 1)

Zeros(len) == [i \in 1..len |-> 0]

Digit(a, i) == IF i >= 1 /\ i <= Len(a) THEN a[i] ELSE 0

\* 2^s for 0 <= s <= 8
Pow2Table == <<1, 2, 4, 8, 16, 32, 64, 128, 256>>
Pow2(s) == Pow2Table[s + 1]

RECURSIVE AddFrom(_, _, _, _)
AddFrom(a, b, carry, i) ==
  IF i > Len(a) THEN <<>>
  ELSE LET s == a[i] + b[i] + carry
       IN  <<s % 256>> \o AddFrom(a, b, s \div 256, i + 1)

\* a + b modulo 256^Len(a)
AddDigits(a, b) == AddFrom(a, b, 0, 1)

RECURSIVE SubFrom(_, _, _, _)
SubFrom(a, b, borrow, i) ==
  IF i > Len(a) THEN <<>>
  ELSE LET d == a[i] - b[i] - borrow
       IN  <<d % 256>> \o SubFrom(a, b, IF d < 0 THEN 1 ELSE 0, i + 1)

\* a - b modulo 256^Len(a)
SubDigits(a, b) == SubFrom(a, b, 0, 1)

\* the sum of a[i] * b[k + 1 - i] over i..k: column k of the product
RECURSIVE ColumnSum(_, _, _, _)
ColumnSum(a, b, k, i) ==
  IF i > k THEN 0
  ELSE a[i] * b[k + 1 - i] + ColumnSum(a, b, k, i + 1)

RECURSIVE MulFrom(_, _, _, _)
MulFrom(a, b, carry, k) ==
  IF k > Len(a) THEN <<>>
  ELSE LET s == ColumnSum(a, b, k, 1) + carry
       IN  <<s % 256>> \o MulFrom(a, b, s \div 256, k + 1)

\* a * b modulo 256^Len(a)
MulDigits(a, b) == MulFrom(a, b, 0, 1)

RECURSIVE LessFrom(_, _, _)
LessFrom(a, b, i) ==
  IF i = 0 THEN FALSE
  ELSE IF a[i] # b[i] THEN a[i] < b[i]
  ELSE LessFrom(a, b, i - 1)

\* a < b as unsigned numbers of the same length
LessDigits(a, b) == LessFrom(a, b, Len(a))

\* a << k and a >> k for 0 <= k < 8 * Len(a): the machine shifts
ShlBy(a, d, m, dm) ==
  [i \in 1..Len(a) |->
     IF i - d < 1 THEN 0
     ELSE IF i - d = 1 THEN (a[1] * m) % 256
     ELSE ((a[i - d] * m) % 256) + (a[i - d - 1] \div dm)]

ShlDigits(a, k) == ShlBy(a, k \div 8, Pow2(k % 8), Pow2(8 - (k % 8)))

ShrBy(a, d, m, dm) ==
  [i \in 1..Len(a) |->
     IF i + d > Len(a) THEN 0
     ELSE IF i + d = Len(a) THEN a[i + d] \div m
     ELSE (a[i + d] \div m) + ((a[i + d + 1] * dm) % 256)]

ShrDigits(a, k) == ShrBy(a, k \div 8, Pow2(k % 8), Pow2(8 - (k % 8)))

RECURSIVE OrByte(_, _)
OrByte(x, y) ==
  IF x = 0 THEN y
  ELSE IF y = 0 THEN x
  ELSE (IF x % 2 = 1 \/ y % 2 = 1 THEN 1 ELSE 0) + 2 * OrByte(x \div 2, y \div 2)

RECURSIVE AndByte(_, _)
AndByte(x, y) ==
  IF x = 0 \/ y = 0 THEN 0
  ELSE (IF x % 2 = 1 /\ y % 2 = 1 THEN 1 ELSE 0) + 2 * AndByte(x \div 2, y \div 2)

OrTable == [x \in 0..255 |-> [y \in 0..255 |-> OrByte(x, y)]]
AndTable == [x \in 0..255 |-> [y \in 0..255 |-> AndByte(x, y)]]
OrDigits(a, b) == [i \in 1..Len(a) |-> OrTable[a[i]][b[i]]]
AndDigits(a, b) == [i \in 1..Len(a) |-> AndTable[a[i]][b[i]]]
NotDigits(a) == [i \in 1..Len(a) |-> 255 - a[i]]

\* zero-extension (or truncation) of a to len digits
Resize(a, len) == [i \in 1..len |-> Digit(a, i)]

\* ------------------------------------------------------------------------
\* uint64_t
\* ------------------------------------------------------------------------

\* the uint64_t with value n, for a small n
U64(n) == Digits(n, LimbLen)

Zero64 == Zeros(LimbLen)
Max64 == [i \in 1..LimbLen |-> 255]

Add64(x, y) == AddDigits(x, y)
Sub64(x, y) == SubDigits(x, y)
Mul64(x, y) == MulDigits(x, y)
Less64(x, y) == LessDigits(x, y)
Shl64(x, k) == ShlDigits(x, k)
Shr64(x, k) == ShrDigits(x, k)
Or64(x, y) == OrDigits(x, y)
And64(x, y) == AndDigits(x, y)
Not64(x) == NotDigits(x)

\* __builtin_clzll(n) for n # 0: the number of zero bits above the highest
\* set bit of the 64-bit n
RECURSIVE ByteWidth(_)
ByteWidth(x) == IF x = 0 THEN 0 ELSE 1 + ByteWidth(x \div 2)

RECURSIVE ClzFrom(_, _)
ClzFrom(n, i) ==
  IF i = 0 THEN 0
  ELSE IF n[i] = 0 THEN 8 + ClzFrom(n, i - 1)
  ELSE 8 - ByteWidth(n[i])

BuiltinClzll(n) == ClzFrom(n, LimbLen)

\* ------------------------------------------------------------------------
\* uint128_t: two uint64_t limbs, value hi * 2^64 + lo
\* ------------------------------------------------------------------------

MakeUint128Swapped(high, low) == [hi |-> low, lo |-> high]

MakeUint128(high, low) == [hi |-> high, lo |-> low]

Uint128Low64(v) == v.lo

Uint128High64(v) == v.hi

\* uint128_t(int v), for the int literals the code converts
Uint128FromInt(v) ==
  [lo |-> IF v < 0 THEN Sub64(Zero64, U64(-v)) ELSE U64(v),
   hi |-> IF v < 0 THEN Max64 ELSE Zero64]

\* uint128_t(unsigned long v)
Uint128FromU64(v) == [lo |-> v, hi |-> Zero64]

OperatorEq(lhs, rhs) ==
  /\ Uint128Low64(lhs) = Uint128Low64(rhs)
  /\ Uint128High64(lhs) = Uint128High64(rhs)

OperatorNe(lhs, rhs) == ~OperatorEq(lhs, rhs)

OperatorLtLowFirst(lhs, rhs) ==
  IF Uint128Low64(lhs) = Uint128Low64(rhs)
  THEN Less64(Uint128High64(lhs), Uint128High64(rhs))
  ELSE Less64(Uint128Low64(lhs), Uint128Low64(rhs))

OperatorLt(lhs, rhs) ==
  IF Uint128High64(lhs) = Uint128High64(rhs)
  THEN Less64(Uint128Low64(lhs), Uint128Low64(rhs))
  ELSE Less64(Uint128High64(lhs), Uint128High64(rhs))

OperatorGt(lhs, rhs) == OperatorLt(rhs, lhs)

OperatorLe(lhs, rhs) == ~OperatorLt(rhs, lhs)

OperatorGe(lhs, rhs) == ~OperatorLt(lhs, rhs)

\* unary operator-
\* operator- without the carry into the high limb
OperatorNegNoCarry(val) ==
  MakeUint128(Not64(Uint128High64(val)), Add64(Not64(Uint128Low64(val)), U64(1)))

OperatorNeg(val) ==
  LET hi == Not64(Uint128High64(val))
      lo == Add64(Not64(Uint128Low64(val)), U64(1))
  IN  IF lo = Zero64 THEN MakeUint128(Add64(hi, U64(1)), lo)
      ELSE MakeUint128(hi, lo)

OperatorOr(lhs, rhs) ==
  MakeUint128(Or64(Uint128High64(lhs), Uint128High64(rhs)),
              Or64(Uint128Low64(lhs), Uint128Low64(rhs)))

\* operator<<, portable branch, for 0 <= amount < 128
OperatorShlLostCarry(lhs, amount) ==
  IF amount < 64
  THEN IF amount # 0
       THEN MakeUint128(Shl64(Uint128High64(lhs), amount),
                        Shl64(Uint128Low64(lhs), amount))
       ELSE lhs
  ELSE MakeUint128(Shl64(Uint128Low64(lhs), amount - 64), Zero64)

OperatorShl(lhs, amount) ==
  IF amount < 64
  THEN IF amount # 0
       THEN MakeUint128(
              Or64(Shl64(Uint128High64(lhs), amount),
                   Shr64(Uint128Low64(lhs), 64 - amount)),
              Shl64(Uint128Low64(lhs), amount))
       ELSE lhs
  ELSE MakeUint128(Shl64(Uint128Low64(lhs), amount - 64), Zero64)

\* operator>>, portable branch, for 0 <= amount < 128
OperatorShrLostCarry(lhs, amount) ==
  IF amount < 64
  THEN IF amount # 0
       THEN MakeUint128(Shr64(Uint128High64(lhs), amount),
                        Shr64(Uint128Low64(lhs), amount))
       ELSE lhs
  ELSE MakeUint128(Zero64, Shr64(Uint128High64(lhs), amount - 64))

OperatorShr(lhs, amount) ==
  IF amount < 64
  THEN IF amount # 0
       THEN MakeUint128(
              Shr64(Uint128High64(lhs), amount),
              Or64(Shr64(Uint128Low64(lhs), amount),
                   Shl64(Uint128High64(lhs), 64 - amount)))
       ELSE lhs
  ELSE MakeUint128(Zero64, Shr64(Uint128High64(lhs), amount - 64))

\* the shift counts of operator<< without the special case for amount == 0
OperatorShlShiftsNoZeroCase(amount) ==
  IF amount < 64
  THEN <<amount, 64 - amount, amount>>
  ELSE <<amount - 64>>

\* the counts of the uint64_t shifts operator<< executes, in the order of
\* its expressions
OperatorShlShifts(amount) ==
  IF amount < 64
  THEN IF amount # 0
       THEN <<amount, 64 - amount, amount>>
       ELSE <<>>
  ELSE <<amount - 64>>

\* the counts of the uint64_t shifts operator>> executes
OperatorShrShifts(amount) ==
  IF amount < 64
  THEN IF amount # 0
       THEN <<amount, amount, 64 - amount>>
       ELSE <<>>
  ELSE <<amount - 64>>

OperatorPlusCarryLeq(lhs, rhs) ==
  LET result == MakeUint128(Add64(Uint128High64(lhs), Uint128High64(rhs)),
                            Add64(Uint128Low64(lhs), Uint128Low64(rhs)))
  IN  IF ~Less64(Uint128Low64(lhs), Uint128Low64(result))
      THEN MakeUint128(Add64(Uint128High64(result), U64(1)), Uint128Low64(result))
      ELSE result

OperatorPlus(lhs, rhs) ==
  LET result == MakeUint128(Add64(Uint128High64(lhs), Uint128High64(rhs)),
                            Add64(Uint128Low64(lhs), Uint128Low64(rhs)))
  IN  IF Less64(Uint128Low64(result), Uint128Low64(lhs))
      THEN MakeUint128(Add64(Uint128High64(result), U64(1)), Uint128Low64(result))
      ELSE result

OperatorMinus(lhs, rhs) ==
  LET result == MakeUint128(Sub64(Uint128High64(lhs), Uint128High64(rhs)),
                            Sub64(Uint128Low64(lhs), Uint128Low64(rhs)))
  IN  IF Less64(Uint128Low64(lhs), Uint128Low64(rhs))
      THEN MakeUint128(Sub64(Uint128High64(result), U64(1)), Uint128Low64(result))
      ELSE result

\* 0xffffffff
Mask32 == [i \in 1..LimbLen |-> IF i <= 4 THEN 255 ELSE 0]

OperatorMulNarrowCross(lhs, rhs) ==
  LET a32 == Shr64(Uint128Low64(lhs), 32)
      a00 == And64(Uint128Low64(lhs), Mask32)
      b32 == Shr64(Uint128Low64(rhs), 32)
      b00 == And64(Uint128Low64(rhs), Mask32)
      result0 == MakeUint128(
                   Add64(Add64(Mul64(Uint128High64(lhs), Uint128Low64(rhs)),
                               Mul64(Uint128Low64(lhs), Uint128High64(rhs))),
                         Mul64(a32, b32)),
                   Mul64(a00, b00))
      result1 == OperatorPlus(result0, Uint128FromU64(Shl64(Mul64(a32, b00), 32)))
  IN  OperatorPlus(result1, Uint128FromU64(Shl64(Mul64(a00, b32), 32)))

\* operator*, portable branch (four 32-bit partial products)
OperatorMul(lhs, rhs) ==
  LET a32 == Shr64(Uint128Low64(lhs), 32)
      a00 == And64(Uint128Low64(lhs), Mask32)
      b32 == Shr64(Uint128Low64(rhs), 32)
      b00 == And64(Uint128Low64(rhs), Mask32)
      result0 == MakeUint128(
                   Add64(Add64(Mul64(Uint128High64(lhs), Uint128Low64(rhs)),
                               Mul64(Uint128Low64(lhs), Uint128High64(rhs))),
                         Mul64(a32, b32)),
                   Mul64(a00, b00))
      result1 == OperatorPlus(result0, OperatorShl(Uint128FromU64(Mul64(a32, b00)), 32))
  IN  OperatorPlus(result1, OperatorShl(Uint128FromU64(Mul64(a00, b32)), 32))

\* ------------------------------------------------------------------------
\* Division engine
\* ------------------------------------------------------------------------

\* the string literal of CountLeadingZeros64Slow with subscript 3 holding 1
ClzNibbleTableWrongThree == <<4, 3, 2, 1, 1, 1, 1, 1, 0, 0, 0, 0, 0, 0, 0, 0>>

\* "\4\3\2\2\1\1\1\1\0\0\0\0\0\0\0": fifteen characters and the terminating
\* NUL; subscript k of the literal is element k + 1 here
ClzNibbleTable == <<4, 3, 2, 2, 1, 1, 1, 1, 0, 0, 0, 0, 0, 0, 0, 0>>

\* if (n >> k) { zeroes -= k; n >>= k; }
ClzSlowHalve(st, k) ==
  IF Shr64(st.n, k) # Zero64
  THEN [n |-> Shr64(st.n, k), zeroes |-> st.zeroes - k]
  ELSE st

\* a uint64_t used as a subscript: its value, 256 standing for every value
\* above one byte (all of them outside the literal)
SubscriptOf(n) == IF Less64(n, U64(256)) THEN n[1] ELSE 256

\* CountLeadingZeros64Slow.  index: the subscript applied to the literal;
\* outcome "undefined": the subscript is outside the literal
CountLeadingZeros64Slow(n) ==
  LET st == ClzSlowHalve(ClzSlowHalve(ClzSlowHalve(ClzSlowHalve(
              [n |-> n, zeroes |-> 60], 32), 16), 8), 4)
      index == SubscriptOf(st.n)
  IN  IF index \in 0..(Len(ClzNibbleTable) - 1)
      THEN [outcome |-> "returned", index |-> index,
            result |-> ClzNibbleTable[index + 1] + st.zeroes]
      ELSE [outcome |-> "undefined", index |-> index]

CountLeadingZeros64(n) == IF n = Zero64 THEN 64 ELSE BuiltinClzll(n)

\* the ABSL_INTERNAL_ASSUME conditions of Fls128: the argument is not 0
Fls128Defined(n) ==
  IF Uint128High64(n) # Zero64 THEN Uint128High64(n) # Zero64
  ELSE Uint128Low64(n) # Zero64

\* Fls128 with the index of a bit of the high limb one too low
Fls128HighOffByOne(n) ==
  IF Uint128High64(n) # Zero64
  THEN 126 - CountLeadingZeros64(Uint128High64(n))
  ELSE 63 - CountLeadingZeros64(Uint128Low64(n))

Fls128(n) ==
  IF Uint128High64(n) # Zero64
  THEN 127 - CountLeadingZeros64(Uint128High64(n))
  ELSE 63 - CountLeadingZeros64(Uint128Low64(n))

DivModStepSetBeforeShift(st) ==
  LET take == OperatorGe(st.dividend, st.denominator)
      q1 == IF take THEN OperatorOr(st.quotient, Uint128FromInt(1)) ELSE st.quotient
  IN  [i |-> st.i + 1,
       shift |-> st.shift,
       quotient |-> OperatorShl(q1, 1),
       dividend |-> IF take THEN OperatorMinus(st.dividend, st.denominator)
                    ELSE st.dividend,
       denominator |-> OperatorShr(st.denominator, 1)]

DivModStepStrictCompare(st) ==
  LET q1 == OperatorShl(st.quotient, 1)
      take == OperatorGt(st.dividend, st.denominator)
  IN  [i |-> st.i + 1,
       shift |-> st.shift,
       quotient |-> IF take THEN OperatorOr(q1, Uint128FromInt(1)) ELSE q1,
       dividend |-> IF take THEN OperatorMinus(st.dividend, st.denominator)
                    ELSE st.dividend,
       denominator |-> OperatorShr(st.denominator, 1)]

\* one iteration of the shift-subtract loop of uint128_t::DivMod
DivModStep(st) ==
  LET q1 == OperatorShl(st.quotient, 1)
      take == OperatorGe(st.dividend, st.denominator)
  IN  [i |-> st.i + 1,
       shift |-> st.shift,
       quotient |-> IF take THEN OperatorOr(q1, Uint128FromInt(1)) ELSE q1,
       dividend |-> IF take THEN OperatorMinus(st.dividend, st.denominator)
                    ELSE st.dividend,
       denominator |-> OperatorShr(st.denominator, 1)]

\* the loop stopping one iteration early
DivModLoopConditionStrict(st) == st.i < st.shift

\* for (int i = 0; i <= shift; ++i)
DivModLoopCondition(st) == st.i <= st.shift

RECURSIVE DivModLoop(_)
DivModLoop(st) == IF DivModLoopCondition(st) THEN DivModLoop(DivModStep(st)) ELSE st

DivModEnter(dividend, divisor, shift) ==
  [i |-> 0,
   shift |-> shift,
   quotient |-> Uint128FromInt(0),
   dividend |-> dividend,
   denominator |-> OperatorShl(divisor, shift)]

DivModReturn(st) ==
  [outcome |-> "returned", quotient |-> st.quotient, remainder |-> st.dividend]

\* only the second early return in front of the alignment
DivModPastEqualReturnOnly(dividend, divisor) == ~OperatorEq(divisor, dividend)

\* neither early return of uint128_t::DivMod is taken
DivModPastEarlyReturns(dividend, divisor) ==
  ~OperatorGt(divisor, dividend) /\ ~OperatorEq(divisor, dividend)

\* the limb Fls128(n) passes to CountLeadingZeros64
Fls128ClzArg(n) ==
  IF Uint128High64(n) # Zero64 THEN Uint128High64(n) ELSE Uint128Low64(n)

Uint128DivModNoAssert(dividend, divisor, ndebug) ==
  IF OperatorGt(divisor, dividend)
  THEN [outcome |-> "returned", quotient |-> Uint128FromInt(0), remainder |-> dividend]
  ELSE IF OperatorEq(divisor, dividend)
  THEN [outcome |-> "returned", quotient |-> Uint128FromInt(1),
        remainder |-> Uint128FromInt(0)]
  ELSE IF ~(Fls128Defined(dividend) /\ Fls128Defined(divisor))
  THEN [outcome |-> "undefined"]
  ELSE DivModReturn(DivModLoop(DivModEnter(dividend, divisor,
                                             Fls128(dividend) - Fls128(divisor))))

\* uint128_t::DivMod.  ndebug: the build has NDEBUG (assert compiled out).
\* outcome "returned": both out-parameters were written;
\* "assert": an assertion failed, nothing was written;
\* "undefined": an ABSL_INTERNAL_ASSUME was violated in an NDEBUG build.
Uint128DivMod(dividend, divisor, ndebug) ==
  IF ~ndebug /\ ~OperatorNe(divisor, Uint128FromInt(0))
  THEN [outcome |-> "assert"]
  ELSE IF OperatorGt(divisor, dividend)
  THEN [outcome |-> "returned", quotient |-> Uint128FromInt(0), remainder |-> dividend]
  ELSE IF OperatorEq(divisor, dividend)
  THEN [outcome |-> "returned", quotient |-> Uint128FromInt(1),
        remainder |-> Uint128FromInt(0)]
  ELSE IF ~(Fls128Defined(dividend) /\ Fls128Defined(divisor))
  THEN [outcome |-> "undefined"]
  ELSE DivModReturn(DivModLoop(DivModEnter(dividend, divisor,
                                             Fls128(dividend) - Fls128(divisor))))

\* operator/ and operator% (uint128_t), portable branch: the quotient and
\* the remainder of one DivMod call on locals initialised to 0
OperatorDiv(lhs, rhs, ndebug) ==
  LET r == Uint128DivMod(lhs, rhs, ndebug)
  IN  IF r.outcome = "returned"
      THEN [outcome |-> "returned", value |-> r.quotient]
      ELSE [outcome |-> r.outcome]

OperatorMod(lhs, rhs, ndebug) ==
  LET r == Uint128DivMod(lhs, rhs, ndebug)
  IN  IF r.outcome = "returned"
      THEN [outcome |-> "returned", value |-> r.remainder]
      ELSE [outcome |-> r.outcome]

\* ------------------------------------------------------------------------
\* int64_t: a mathematical integer in -2^63 .. 2^63 - 1, kept as sign and
\* magnitude (neg is FALSE for 0), so that every conversion between the
\* signed and the unsigned view is a computation.
\* ------------------------------------------------------------------------

\* 2^63
Bit63 == Shl64(U64(1), 63)

\* static_cast<int64_t>(v) for v < 2^63 (the value is kept)
S64FromU64(v) == [neg |-> FALSE, mag |-> v]

\* ~x on an int64_t: -x - 1
S64Not(x) ==
  IF x.neg
  THEN [neg |-> FALSE, mag |-> Sub64(x.mag, U64(1))]
  ELSE [neg |-> TRUE, mag |-> Add64(x.mag, U64(1))]

\* x < 0 on an int64_t
S64IsNegative(x) == x.neg

\* static_cast<uint64_t>(x): x modulo 2^64
U64FromS64(x) == IF x.neg THEN Sub64(Zero64, x.mag) ELSE x.mag

\* int128_t_internal::BitCastToSigned
BitCastToSigned(v) ==
  IF And64(v, Bit63) # Zero64
  THEN S64Not(S64FromU64(Not64(v)))
  ELSE S64FromU64(v)

\* ------------------------------------------------------------------------
\* int128_t, two-limb representation {hi: int64_t, lo: uint64_t}
\* ------------------------------------------------------------------------

MakeInt128(high, low) == [hi |-> high, lo |-> low]

Int128High64(v) == v.hi

Int128Low64(v) == v.lo

Uint128FromInt128Magnitude(v) ==
  [lo |-> Int128Low64(v), hi |-> Int128High64(v).mag]

\* uint128_t(int128_t v)
Uint128FromInt128(v) ==
  [lo |-> Int128Low64(v), hi |-> U64FromS64(Int128High64(v))]

Int128Min == MakeInt128([neg |-> TRUE, mag |-> Bit63], Zero64)

\* int128_t(int v), for the int literals the code converts
Int128FromInt(v) ==
  [lo |-> IF v < 0 THEN Sub64(Zero64, U64(-v)) ELSE U64(v),
   hi |-> IF v < 0 THEN [neg |-> TRUE, mag |-> U64(1)] ELSE S64FromU64(Zero64)]

Int128Eq(lhs, rhs) ==
  /\ Int128Low64(lhs) = Int128Low64(rhs)
  /\ Int128High64(lhs) = Int128High64(rhs)

Int128Ne(lhs, rhs) == ~Int128Eq(lhs, rhs)

UnsignedAbsoluteValueNoNegate(v) == Uint128FromInt128(v)

UnsignedAbsoluteValue(v) ==
  IF S64IsNegative(Int128High64(v))
  THEN OperatorNeg(Uint128FromInt128(v))
  ELSE Uint128FromInt128(v)

\* the int128_t with the bits of the uint128_t u
Int128FromBits(u) == MakeInt128(BitCastToSigned(Uint128High64(u)), Uint128Low64(u))

\* the tail of int128_t::DivMod after its assertion, with the conditions
\* under which the quotient and the remainder are negated
SignedDivModTail(dividend, divisor, ndebug, negateQuotient, negateRemainder) ==
  LET u == Uint128DivMod(UnsignedAbsoluteValue(dividend),
                         UnsignedAbsoluteValue(divisor), ndebug)
  IN  IF u.outcome # "returned" THEN [outcome |-> u.outcome]
      ELSE [outcome |-> "returned",
            quotient |-> Int128FromBits(IF negateQuotient THEN OperatorNeg(u.quotient)
                                        ELSE u.quotient),
            remainder |-> Int128FromBits(IF negateRemainder THEN OperatorNeg(u.remainder)
                                         ELSE u.remainder)]

Int128DivModUnsignedRemainder(dividend, divisor, ndebug) ==
  IF ~ndebug /\ ~(Int128Ne(dividend, Int128Min) \/ Int128Ne(divisor, Int128FromInt(-1)))
  THEN [outcome |-> "assert"]
  ELSE SignedDivModTail(dividend, divisor, ndebug,
                        S64IsNegative(Int128High64(dividend))
                          # S64IsNegative(Int128High64(divisor)),
                        FALSE)

Int128DivModQuotientSignOfDividend(dividend, divisor, ndebug) ==
  IF ~ndebug /\ ~(Int128Ne(dividend, Int128Min) \/ Int128Ne(divisor, Int128FromInt(-1)))
  THEN [outcome |-> "assert"]
  ELSE SignedDivModTail(dividend, divisor, ndebug,
                        S64IsNegative(Int128High64(dividend)),
                        S64IsNegative(Int128High64(dividend)))

Int128DivModAssertPlusOne(dividend, divisor, ndebug) ==
  IF ~ndebug /\ ~(Int128Ne(dividend, Int128Min) \/ Int128Ne(divisor, Int128FromInt(1)))
  THEN [outcome |-> "assert"]
  ELSE SignedDivModTail(dividend, divisor, ndebug,
                        S64IsNegative(Int128High64(dividend))
                          # S64IsNegative(Int128High64(divisor)),
                        S64IsNegative(Int128High64(dividend)))

\* int128_t::DivMod
Int128DivMod(dividend, divisor, ndebug) ==
  IF ~ndebug /\ ~(Int128Ne(dividend, Int128Min) \/ Int128Ne(divisor, Int128FromInt(-1)))
  THEN [outcome |-> "assert"]
  ELSE LET u == Uint128DivMod(UnsignedAbsoluteValue(dividend),
                              UnsignedAbsoluteValue(divisor), ndebug)
       IN  IF u.outcome # "returned" THEN [outcome |-> u.outcome]
           ELSE LET quotient ==
                      IF S64IsNegative(Int128High64(dividend))
                           # S64IsNegative(Int128High64(divisor))
                      THEN OperatorNeg(u.quotient) ELSE u.quotient
                    remainder ==
                      IF S64IsNegative(Int128High64(dividend))
                      THEN OperatorNeg(u.remainder) ELSE u.remainder
                IN  [outcome |-> "returned",
                     quotient |-> Int128FromBits(quotient),
                     remainder |-> Int128FromBits(remainder)]

\* operator/ (int128_t)
Int128OperatorDiv(lhs, rhs, ndebug) ==
  IF ~ndebug /\ ~(Int128Ne(lhs, Int128Min) \/ Int128Ne(rhs, Int128FromInt(-1)))
  THEN [outcome |-> "assert"]
  ELSE LET u == Uint128DivMod(UnsignedAbsoluteValue(lhs),
                              UnsignedAbsoluteValue(rhs), ndebug)
       IN  IF u.outcome # "returned" THEN [outcome |-> u.outcome]
           ELSE LET quotient ==
                      IF S64IsNegative(Int128High64(lhs))
                           # S64IsNegative(Int128High64(rhs))
                      THEN OperatorNeg(u.quotient) ELSE u.quotient
                IN  [outcome |-> "returned", value |-> Int128FromBits(quotient)]

\* operator% (int128_t)
Int128OperatorMod(lhs, rhs, ndebug) ==
  IF ~ndebug /\ ~(Int128Ne(lhs, Int128Min) \/ Int128Ne(rhs, Int128FromInt(-1)))
  THEN [outcome |-> "assert"]
  ELSE LET u == Uint128DivMod(UnsignedAbsoluteValue(lhs),
                              UnsignedAbsoluteValue(rhs), ndebug)
       IN  IF u.outcome # "returned" THEN [outcome |-> u.outcome]
           ELSE LET remainder ==
                      IF S64IsNegative(Int128High64(lhs))
                      THEN OperatorNeg(u.remainder) ELSE u.remainder
                IN  [outcome |-> "returned", value |-> Int128FromBits(remainder)]

\* ------------------------------------------------------------------------
\* Native integer types (LP64, the platform of the __builtin_clzll branch).
\* A native integer value is [neg, mag]: its sign and its magnitude as a
\* 64-bit number; an unsigned value has neg = FALSE.
\* ------------------------------------------------------------------------

\* sizeof of each integer type a uint128_t converts to or from
TypeBytes(t) ==
  CASE t \in {"char", "signed char", "unsigned char"} -> 1
    [] t \in {"char16_t", "short", "unsigned short"} -> 2
    [] t \in {"char32_t", "wchar_t", "int", "unsigned int"} -> 4
    [] t \in {"long", "unsigned long", "long long", "unsigned long long"} -> 8

TypeSigned(t) ==
  t \in {"char", "signed char", "wchar_t", "short", "int", "long", "long long"}

\* the types of the conversion operators, and of the constructors
ConversionTypes ==
  {"char", "signed char", "unsigned char", "char16_t", "char32_t", "wchar_t",
   "short", "unsigned short", "int", "unsigned int", "long", "unsigned long",
   "long long", "unsigned long long"}

ConstructorTypes ==
  {"int", "long", "long long", "unsigned int", "unsigned long", "unsigned long long"}

\* the low bytes of the 64-bit x that a type of the given size keeps,
\* extended to 64 bits with the byte fill
LowBytes(x, bytes, fill) == [i \in 1..LimbLen |-> IF i <= bytes THEN x[i] ELSE fill]

\* static_cast<T>(x) of a uint64_t x: x modulo 2^(8 * sizeof(T)), read as a
\* two's-complement number when T is signed
StaticCastFromU64(x, t) ==
  IF TypeSigned(t) /\ x[TypeBytes(t)] >= 128
  THEN [neg |-> TRUE, mag |-> Sub64(Zero64, LowBytes(x, TypeBytes(t), 255))]
  ELSE [neg |-> FALSE, mag |-> LowBytes(x, TypeBytes(t), 0)]

Uint128FromSignedZeroExtended(v) ==
  [lo |-> U64FromS64(v), hi |-> Zero64]

\* uint128_t(int v), uint128_t(long v), uint128_t(long long v)
Uint128FromSigned(v) ==
  [lo |-> U64FromS64(v),
   hi |-> IF S64IsNegative(v) THEN Max64 ELSE Zero64]

\* uint128_t(unsigned int v), uint128_t(unsigned long v),
\* uint128_t(unsigned long long v)
Uint128FromUnsigned(v) == [lo |-> v.mag, hi |-> Zero64]

\* the constructor overload chosen for a value of type t
Uint128FromNative(v, t) ==
  IF TypeSigned(t) THEN Uint128FromSigned(v) ELSE Uint128FromUnsigned(v)

Uint128ToNativeFromHigh(v, t) == StaticCastFromU64(Uint128High64(v), t)

\* uint128_t::operator T() for the integer types T
Uint128ToNative(v, t) == StaticCastFromU64(Uint128Low64(v), t)

\* uint128_t::operator bool()
Uint128ToBool(v) == Uint128Low64(v) # Zero64 \/ Uint128High64(v) # Zero64

\* ------------------------------------------------------------------------
\* Formatting.  A string is a sequence of one-character strings.  The
\* stream is the std::ostringstream of ToFormattedString: its base, its
\* showbase and uppercase flags, its fill character, its field width (reset
\* by each insertion) and the characters written so far.
\* ------------------------------------------------------------------------

LowerDigits ==
  <<"0", "1", "2", "3", "4", "5", "6", "7", "8", "9", "a", "b", "c", "d", "e", "f">>

UpperDigits ==
  <<"0", "1", "2", "3", "4", "5", "6", "7", "8", "9", "A", "B", "C", "D", "E", "F">>

\* the number made of the digits i and above of a, modulo d (d < 2^16)
RECURSIVE ModSmallFrom(_, _, _)
ModSmallFrom(a, d, i) ==
  IF i > Len(a) THEN 0 ELSE (ModSmallFrom(a, d, i + 1) * 256 + a[i]) % d

\* a % d and a / d for a small divisor d
ModSmall(a, d) == ModSmallFrom(a, d, 1)
DivSmall(a, d) ==
  [i \in 1..Len(a) |-> (ModSmallFrom(a, d, i + 1) * 256 + a[i]) \div d]

\* the digits of x # 0 in the base, most significant first
RECURSIVE NumeralFrom(_, _, _)
NumeralFrom(x, base, chars) ==
  IF x = Zeros(Len(x)) THEN <<>>
  ELSE NumeralFrom(DivSmall(x, base), base, chars) \o <<chars[ModSmall(x, base) + 1]>>

Numeral(x, base, chars) ==
  IF x = Zeros(Len(x)) THEN <<"0">> ELSE NumeralFrom(x, base, chars)

\* the values of std::ios::basefield the callers pass: one base, none, or
\* more than one
BaseFields == {{}, {"dec"}, {"oct"}, {"hex"}, {"oct", "hex"}}

FormatFlags ==
  [basefield : BaseFields, showbase : BOOLEAN, uppercase : BOOLEAN, showpos : BOOLEAN]

\* std::ostringstream os; os.setf(flags & copy_mask, copy_mask)
OstreamSetf(flags) ==
  [basefield |-> flags.basefield, showbase |-> flags.showbase,
   uppercase |-> flags.uppercase, fill |-> " ", width |-> 0, str |-> <<>>]

\* the base in which the stream writes integers
OstreamBase(os) ==
  IF os.basefield = {"hex"} THEN 16 ELSE IF os.basefield = {"oct"} THEN 8 ELSE 10

\* the characters of a uint64_t before padding: the base prefix, written
\* with showbase for a nonzero value, then the digits
NumPutU64(os, x) ==
  LET prefix == IF ~os.showbase \/ x = Zero64 THEN <<>>
                ELSE IF OstreamBase(os) = 16
                THEN <<"0", IF os.uppercase THEN "X" ELSE "x">>
                ELSE IF OstreamBase(os) = 8 THEN <<"0">>
                ELSE <<>>
  IN  prefix \o Numeral(x, OstreamBase(os),
                        IF os.uppercase THEN UpperDigits ELSE LowerDigits)

OstreamPutU64Unpadded(os, x) ==
  [os EXCEPT !.str = @ \o NumPutU64(os, x), !.width = 0]

\* os << x for a uint64_t x: right-adjusted in the field width, which is
\* then reset
OstreamPutU64(os, x) ==
  [os EXCEPT !.str = @ \o [i \in 1..(os.width - Len(NumPutU64(os, x))) |-> os.fill]
                         \o NumPutU64(os, x),
             !.width = 0]

OstreamZeroFillKeepBase(os, width) ==
  [os EXCEPT !.fill = "0", !.width = width]

\* os << std::noshowbase << std::setfill('0') << std::setw(width)
OstreamZeroFill(os, width) ==
  [os EXCEPT !.showbase = FALSE, !.fill = "0", !.width = width]

\* os << std::setw(width)
OstreamSetw(os, width) == [os EXCEPT !.width = width]

\* 10^19, 8^21 and 16^15
Ten19 == <<0, 0, 232, 137, 4, 35, 199, 138>>
Eight21 == Shl64(U64(1), 63)
Sixteen15 == Shl64(U64(1), 60)

\* the divisor selected by the base: the largest power of the base < 2^64
FormatDiv(flags) ==
  IF flags.basefield = {"hex"} THEN Uint128FromU64(Sixteen15)
  ELSE IF flags.basefield = {"oct"} THEN Uint128FromU64(Eight21)
  ELSE Uint128FromU64(Ten19)

FormatDivBaseLogShort(flags) ==
  IF flags.basefield = {"hex"} THEN 14
  ELSE IF flags.basefield = {"oct"} THEN 20
  ELSE 18

\* div_base_log: the number of digits of a chunk
FormatDivBaseLog(flags) ==
  IF flags.basefield = {"hex"} THEN 15
  ELSE IF flags.basefield = {"oct"} THEN 21
  ELSE 19

\* ToFormattedString with the second DivMod call left out
FormatChunksOneDivision(v, div, ndebug) ==
  LET first == Uint128DivMod(v, div, ndebug)
  IN  [high |-> Uint128FromInt(0), mid |-> first.quotient, low |-> first.remainder]

\* the three chunks left by the two DivMod calls of ToFormattedString
FormatChunks(v, div, ndebug) ==
  LET first == Uint128DivMod(v, div, ndebug)
      second == Uint128DivMod(first.quotient, div, ndebug)
  IN  [high |-> second.quotient, mid |-> second.remainder, low |-> first.remainder]

\* what ToFormattedString writes for the chunks c
FormatWrite(c, flags) ==
  LET os == OstreamSetf(flags)
      log == FormatDivBaseLog(flags)
  IN  IF Uint128Low64(c.high) # Zero64
      THEN OstreamPutU64(
             OstreamSetw(
               OstreamPutU64(
                 OstreamZeroFill(OstreamPutU64(os, Uint128Low64(c.high)), log),
                 Uint128Low64(c.mid)),
               log),
             Uint128Low64(c.low))
      ELSE IF Uint128Low64(c.mid) # Zero64
      THEN OstreamPutU64(
             OstreamZeroFill(OstreamPutU64(os, Uint128Low64(c.mid)), log),
             Uint128Low64(c.low))
      ELSE OstreamPutU64(os, Uint128Low64(c.low))

\* uint128_t::ToFormattedString
Uint128ToFormattedString(v, flags, ndebug) ==
  FormatWrite(FormatChunks(v, FormatDiv(flags), ndebug), flags).str

\* std::ios::basefield is dec or empty
PrintAsDecimal(flags) == flags.basefield = {"dec"} \/ flags.basefield = {}

\* int128_t::ToFormattedString
Int128ToFormattedString(v, flags, ndebug) ==
  LET rep == IF PrintAsDecimal(flags)
             THEN IF S64IsNegative(Int128High64(v)) THEN <<"-">>
                  ELSE IF flags.showpos THEN <<"+">>
                  ELSE <<>>
             ELSE <<>>
  IN  rep \o Uint128ToFormattedString(
               IF PrintAsDecimal(flags) THEN UnsignedAbsoluteValue(v)
               ELSE Uint128FromInt128(v),
               flags, ndebug)

\* ------------------------------------------------------------------------
\* Floating-point types (float, double, x87 long double).  A value is
\* [class, neg, mant, exp]: "nan", "inf" or the finite number
\* (-1)^neg * mant * 2^exp with mant < 2^digits.  Computations carry the
\* magnitude as a fixed-point number with FracBits fraction bits, which
\* holds every value met here exactly, and round where the type rounds.
\* ------------------------------------------------------------------------

FloatTypes == {"float", "double", "long double"}

\* std::numeric_limits<T>::digits
FloatDigits(t) ==
  CASE t = "float" -> 24 [] t = "double" -> 53 [] t = "long double" -> 64

\* std::numeric_limits<T>::max_exponent
FloatMaxExponent(t) ==
  CASE t = "float" -> 128 [] t = "double" -> 1024 [] t = "long double" -> 16384

FixedLen == 4 * LimbLen + 1

FracBits == 10 * LimbLen

\* 2^k as a fixed-point number
FixedPow2(k) == ShlDigits(Digits(1, FixedLen), k + FracBits)

\* the floating-point value in computation form: [class, neg, fix]
FloatValue(v) ==
  IF v.class = "finite"
  THEN [class |-> "finite", neg |-> v.neg,
        fix |-> ShlDigits(Resize(v.mant, FixedLen), v.exp + FracBits)]
  ELSE [class |-> v.class, neg |-> v.neg, fix |-> Zeros(FixedLen)]

\* number of bits of x up to its highest set bit, for x # 0
BitLength(x) ==
  LET top == CHOOSE i \in 1..Len(x) : x[i] # 0 /\ \A j \in (i + 1)..Len(x) : x[j] = 0
  IN  8 * (top - 1) + ByteWidth(x[top])

\* x rounded to p significant bits, to nearest, ties to even
RoundFixed(x, p) ==
  IF x = Zeros(Len(x)) THEN x
  ELSE IF BitLength(x) <= p THEN x
  ELSE LET d == BitLength(x) - p
           q == ShrDigits(x, d)
           rem == SubDigits(x, ShlDigits(q, d))
           half == ShlDigits(Digits(1, Len(x)), d - 1)
           up == LessDigits(half, rem) \/ (rem = half /\ q[1] % 2 = 1)
       IN  ShlDigits(IF up THEN AddDigits(q, Digits(1, Len(x))) ELSE q, d)

\* std::ldexp(f, k): exact for the values met here
FloatLdexp(f, k) ==
  IF f.class # "finite" THEN f
  ELSE [f EXCEPT !.fix = IF k >= 0 THEN ShlDigits(f.fix, k) ELSE ShrDigits(f.fix, -k)]

\* static_cast<uint64_t>(f) rounding to nearest instead of truncating
FloatToU64Nearest(f) ==
  LET whole == ShrDigits(AddDigits(f.fix, FixedPow2(-1)), FracBits)
  IN  IF f.class # "finite" THEN [defined |-> FALSE]
      ELSE IF f.neg /\ ShrDigits(f.fix, FracBits) # Zeros(FixedLen) THEN [defined |-> FALSE]
      ELSE IF f.neg THEN [defined |-> TRUE, value |-> Zero64]
      ELSE IF LessDigits(whole, ShlDigits(Digits(1, FixedLen), 64))
      THEN [defined |-> TRUE, value |-> Resize(whole, LimbLen)]
      ELSE [defined |-> FALSE]

\* static_cast<uint64_t>(f): the fraction is discarded; undefined when the
\* truncated value is not a uint64_t
FloatToU64(f) ==
  LET whole == ShrDigits(f.fix, FracBits)
  IN  IF f.class # "finite" THEN [defined |-> FALSE]
      ELSE IF f.neg /\ whole # Zeros(FixedLen) THEN [defined |-> FALSE]
      ELSE IF f.neg THEN [defined |-> TRUE, value |-> Zero64]
      ELSE IF LessDigits(whole, ShlDigits(Digits(1, FixedLen), 64))
      THEN [defined |-> TRUE, value |-> Resize(whole, LimbLen)]
      ELSE [defined |-> FALSE]

\* static_cast<T>(x) for a uint64_t x
FloatFromU64(x, t) ==
  [class |-> "finite", neg |-> FALSE,
   fix |-> RoundFixed(ShlDigits(Resize(x, FixedLen), FracBits), FloatDigits(t))]

\* a - b in type t, for a finite or infinite a and a finite b >= 0
FloatSub(a, b, t) ==
  IF a.class # "finite" THEN a
  ELSE IF a.neg
  THEN [a EXCEPT !.fix = RoundFixed(AddDigits(a.fix, b.fix), FloatDigits(t))]
  ELSE IF LessDigits(a.fix, b.fix)
  THEN [class |-> "finite", neg |-> TRUE,
        fix |-> RoundFixed(SubDigits(b.fix, a.fix), FloatDigits(t))]
  ELSE [class |-> "finite", neg |-> FALSE,
        fix |-> RoundFixed(SubDigits(a.fix, b.fix), FloatDigits(t))]

\* f >= 2^k and f < 2^k (both false for a NaN)
FloatGeqPow2(f, k) ==
  CASE f.class = "nan" -> FALSE
    [] f.class = "inf" -> ~f.neg
    [] OTHER -> ~f.neg /\ ~LessDigits(f.fix, FixedPow2(k))

FloatLessPow2(f, k) ==
  CASE f.class = "nan" -> FALSE
    [] f.class = "inf" -> f.neg
    [] OTHER -> (f.neg /\ f.fix # Zeros(FixedLen)) \/ LessDigits(f.fix, FixedPow2(k))

\* the condition of the assert of MakeUint128FromFloat
FloatAssertion(f, t) ==
  /\ f.class = "finite"
  /\ ~f.neg \/ LessDigits(f.fix, FixedPow2(0))
  /\ FloatMaxExponent(t) <= 128 \/ FloatLessPow2(f, 128)

\* MakeUint128FromFloat<T>(v) for T = t
MakeUint128FromFloat(v, t, ndebug) ==
  LET f == FloatValue(v)
  IN  IF ~ndebug /\ ~FloatAssertion(f, t) THEN [outcome |-> "assert"]
      ELSE IF FloatGeqPow2(f, 64)
      THEN LET hi == FloatToU64(FloatLdexp(f, -64))
           IN  IF ~hi.defined THEN [outcome |-> "undefined"]
               ELSE LET lo == FloatToU64(
                                FloatSub(f, FloatLdexp(FloatFromU64(hi.value, t), 64), t))
                    IN  IF ~lo.defined THEN [outcome |-> "undefined"]
                        ELSE [outcome |-> "returned",
                              value |-> MakeUint128(hi.value, lo.value)]
      ELSE LET lo == FloatToU64(f)
           IN  IF ~lo.defined THEN [outcome |-> "undefined"]
               ELSE [outcome |-> "returned", value |-> MakeUint128(Zero64, lo.value)]

\* ------------------------------------------------------------------------
\* Inputs
\* ------------------------------------------------------------------------

\* number of limb values the inputs are built from
NumLimbSamples == 4

\* 0, 1, 2^64 - 1, 2^63, 2^3, 2^56, 2^24 - 1, 0x0123456789abcdef, ...
LimbSampleAt(i) ==
  CASE i = 1 -> Zero64
    [] i = 2 -> U64(1)
    [] i = 3 -> Max64
    [] i = 4 -> Bit63
    [] i = 5 -> U64(8)
    [] i = 6 -> Shl64(U64(1), 56)
    [] i = 7 -> U64(16777215)
    [] i = 8 -> <<239, 205, 171, 137, 103, 69, 35, 1>>
    [] OTHER -> U64(i)

LimbSamples == {LimbSampleAt(i) : i \in 1..NumLimbSamples}

\* the values of the repository tests and of the documented scenarios:
\* 2^120, 2^3, 2^24 - 1, and a value with no regular bit pattern
NamedSamples ==
  {MakeUint128(Shl64(U64(1), 56), Zero64),
   MakeUint128(Zero64, U64(8)),
   MakeUint128(Zero64, U64(16777215)),
   MakeUint128(<<239, 205, 171, 137, 103, 69, 35, 1>>,
               <<16, 50, 84, 118, 152, 186, 220, 254>>)}

U128Samples ==
  {MakeUint128(h, l) : h \in LimbSamples, l \in LimbSamples} \cup NamedSamples

Int128Samples == {Int128FromBits(u) : u \in U128Samples}

\* magnitudes of the native integers: the limb samples and the edges of
\* the 8-, 32- and 64-bit ranges
MagSamples ==
  LimbSamples \cup
  {U64(2), U64(127), U64(128), U64(255), U64(16777215),
   Sub64(Shl64(U64(1), 31), U64(1)), Shl64(U64(1), 31),
   Sub64(Shl64(U64(1), 32), U64(1)),
   Sub64(Bit63, U64(1)), Bit63,
   <<239, 205, 171, 137, 103, 69, 35, 1>>}

\* v is a value of the native integer type t
InRange(v, t) ==
  IF TypeSigned(t)
  THEN IF v.neg
       THEN v.mag # Zero64 /\ ~Less64(Shl64(U64(1), 8 * TypeBytes(t) - 1), v.mag)
       ELSE Less64(v.mag, Shl64(U64(1), 8 * TypeBytes(t) - 1))
  ELSE ~v.neg /\ (TypeBytes(t) = LimbLen \/ Less64(v.mag, Shl64(U64(1), 8 * TypeBytes(t))))

NativeSamples(t) == {v \in [neg : BOOLEAN, mag : MagSamples] : InRange(v, t)}

\* values to format: the samples, one-chunk values, and the powers of the
\* decimal chunk divisor and their neighbours
FormatSamples ==
  U128Samples \cup
  {Uint128FromU64(U64(7)), Uint128FromU64(U64(255)),
   Uint128FromU64(Sub64(Ten19, U64(1))), Uint128FromU64(Ten19),
   OperatorMul(Uint128FromU64(Ten19), Uint128FromU64(Ten19))}

Int128FormatSamples == {Int128FromBits(u) : u \in FormatSamples}

\* arguments of the leading-zero count: 0, and around every power of two
ClzSamples ==
  LimbSamples \cup {<<239, 205, 171, 137, 103, 69, 35, 1>>} \cup
  {Shl64(U64(1), k) : k \in 0..63} \cup
  {Sub64(Shl64(U64(1), k), U64(1)) : k \in 0..63} \cup
  {Or64(Shl64(U64(1), k), U64(1)) : k \in 0..63}

\* operands of the unary minus: every limb sample below every magnitude
\* sample, so that the low limb is 0 under many high limbs
NegSamples ==
  U128Samples \cup {MakeUint128(h, l) : h \in MagSamples, l \in LimbSamples}

\* mantissas of the type with p digits: 1, 3, the two ends of the p-bit
\* range and its odd successor of the lower end
FloatMantissas(p) ==
  {U64(1), U64(3), Shl64(U64(1), p - 1), Or64(Shl64(U64(1), p - 1), U64(1)),
   Or64(Shl64(U64(1), p - 1), Sub64(Shl64(U64(1), p - 1), U64(1)))}

Finite(neg, mant, exp) == [class |-> "finite", neg |-> neg, mant |-> mant, exp |-> exp]

\* exponents that keep a p-bit mantissa below 2^128: those that put its
\* highest or its lowest bit next to bit 0, bit 64 or bit 127, and every
\* eighth one in between
FloatExponents(p) ==
  {e \in (-p - 2)..(128 - p) :
     \/ e % 8 = 0
     \/ e \in (-3..2) \cup (61..66)
     \/ e + p - 1 \in (-3..2) \cup (61..66) \cup (124..127)}

\* values of type t the assert accepts: the mantissas at those exponents,
\* zero and a negative fraction
FloatInRange(t) ==
  {Finite(FALSE, m, e) : m \in FloatMantissas(FloatDigits(t)),
                          e \in FloatExponents(FloatDigits(t))}
  \cup {Finite(FALSE, Zero64, 0), Finite(TRUE, Zero64, 0), Finite(TRUE, U64(1), -1)}

\* values the assert rejects: NaN, the infinities, -1, and for the types
\* that have them 2^128 and 2^140
FloatOutOfRange(t) ==
  {[class |-> "nan", neg |-> FALSE, mant |-> Zero64, exp |-> 0],
   [class |-> "inf", neg |-> FALSE, mant |-> Zero64, exp |-> 0],
   [class |-> "inf", neg |-> TRUE, mant |-> Zero64, exp |-> 0],
   Finite(TRUE, U64(1), 0)}
  \cup (IF FloatMaxExponent(t) > 128
        THEN {Finite(FALSE, U64(1), 128), Finite(FALSE, U64(3), 139)}
        ELSE {})

FloatSamples(t) == FloatInRange(t) \cup FloatOutOfRange(t)

\* dividends and divisors of the statement-by-statement run of DivMod:
\* 0, 1, the test's 2^120, both ends of the range, values on both sides of
\* the limb boundary and values with no regular bit pattern
StepDividends ==
  {Uint128FromInt(0), Uint128FromInt(1), Uint128FromInt(7),
   MakeUint128(Zero64, Max64), MakeUint128(U64(1), Zero64),
   MakeUint128(Shl64(U64(1), 56), Zero64),
   MakeUint128(Bit63, Zero64), MakeUint128(Max64, Max64),
   MakeUint128(<<239, 205, 171, 137, 103, 69, 35, 1>>,
               <<16, 50, 84, 118, 152, 186, 220, 254>>)}

StepDivisors ==
  {Uint128FromInt(0), Uint128FromInt(1), Uint128FromInt(2), Uint128FromInt(3),
   MakeUint128(Zero64, U64(16777215)), MakeUint128(Zero64, Max64),
   MakeUint128(U64(1), Zero64), MakeUint128(U64(1), U64(1)),
   MakeUint128(Bit63, Zero64), MakeUint128(Max64, Max64),
   MakeUint128(Zero64, <<239, 205, 171, 137, 103, 69, 35, 1>>)}

\* shift amounts allowed by the contract of operator<< and operator>>
ShiftAmounts == 0..127

\* what an out-parameter may hold after undefined behaviour
UndefinedValues == {Uint128FromInt(0), MakeUint128(Max64, Max64)}

\* ------------------------------------------------------------------------
\* State: one call of a library operation by a caller
\* ------------------------------------------------------------------------
VARIABLES
  NDEBUG,   \* the build defines NDEBUG (assertions compiled out)
  pc,       \* "idle", then how the call ended: "returned", "assert", "undefined"
  op,       \* the operation called
  args,     \* its arguments
  out,      \* what the call wrote: out-parameters and return value
  threads,  \* the test's parallel loop: each thread's position and registers
  mem,      \* the test's memory: shared x, each thread's v, y, r, z
  access,   \* the locations the last thread step read and wrote
  frame     \* uint128_t::DivMod run statement by statement: position, locals

vars == <<NDEBUG, pc, op, args, out, threads, mem, access, frame>>

NothingWritten == <<>>

\* ---------------------------------------------------------------------------
\* The tests' parallel loop (test_uint128.cpp): data
\* ---------------------------------------------------------------------------

\* threads of the "omp parallel for" team
NumThreads == 2

Threads == 1..NumThreads

\* memory locations are <<owner, name>>; owner 0 is shared by the team
SharedOwner == 0

Owner(loc) == loc[1]

\* x is declared before the parallel region: one object shared by all threads
SharedOf(name) == <<SharedOwner, name>>

\* y and r declared before the loop: one object each for the whole team
LocalOfSharedOutputs(t, name) ==
  IF name \in {"y", "r"} THEN <<SharedOwner, name>> ELSE <<t, name>>

\* the loop variable v and the block-scope objects r, y, z of the loop body:
\* one object per thread
LocalOf(t, name) == <<t, name>>

\* uint128_t x = (uint128_t) 1 << 120;
TestDividend == OperatorShl(Uint128FromInt(1), 120)

\* values of the loop variable, 2 <= v < 1u << 24: the first, a middle one
\* and the last
TestDivisors == {U64(2), U64(65536), U64(16777215)}

\* an assignment to the object at loc
Store(m, loc, val) == (loc :> val) @@ m

\* uint128_t::DivMod on the arguments the loop passes, tabulated
TestDivMod ==
  [a \in {TestDividend} \X {Uint128FromU64(v) : v \in TestDivisors} \X BOOLEAN |->
     Uint128DivMod(a[1], a[2], a[3])] @@ <<>>

NoAccess == [thread |-> SharedOwner, reads |-> {}, writes |-> {}]

\* no call of uint128_t::DivMod is in progress
NoFrame == [pc |-> "idle"]

Init ==
  /\ NDEBUG \in BOOLEAN
  /\ pc = "idle"
  /\ op = "none"
  /\ args = <<>>
  /\ out = NothingWritten
  /\ threads = [t \in Threads |-> [pc |-> "start"]]
  /\ mem = (SharedOf("x") :> TestDividend)
  /\ access = NoAccess
  /\ frame = NoFrame

\* the caller's memory after a DivMod call that ended as r
DivModWrites(r) ==
  IF r.outcome = "returned"
  THEN {[quotient_ret |-> r.quotient, remainder_ret |-> r.remainder]}
  ELSE IF r.outcome = "undefined"
  THEN {[quotient_ret |-> q, remainder_ret |-> m] :
          q \in UndefinedValues, m \in UndefinedValues}
  ELSE {NothingWritten}

\* the caller's memory after an operator call that ended as r
OperatorWrites(r) ==
  IF r.outcome = "returned"
  THEN {[result |-> r.value]}
  ELSE IF r.outcome = "undefined"
  THEN {[result |-> q] : q \in UndefinedValues}
  ELSE {NothingWritten}

CallUint128DivMod ==
  /\ pc = "idle"
  /\ \E dividend \in U128Samples, divisor \in U128Samples :
       \E r \in {Uint128DivMod(dividend, divisor, NDEBUG)} :
           /\ op' = "uint128_t::DivMod"
           /\ args' = [dividend |-> dividend, divisor |-> divisor]
           /\ pc' = r.outcome
           /\ out' \in DivModWrites(r)
  /\ UNCHANGED <<NDEBUG, threads, mem, access, frame>>

CallOperatorDiv ==
  /\ pc = "idle"
  /\ \E lhs \in U128Samples, rhs \in U128Samples :
       \E r \in {OperatorDiv(lhs, rhs, NDEBUG)} :
           /\ op' = "uint128_t::operator/"
           /\ args' = [lhs |-> lhs, rhs |-> rhs]
           /\ pc' = r.outcome
           /\ out' \in OperatorWrites(r)
  /\ UNCHANGED <<NDEBUG, threads, mem, access, frame>>

CallOperatorMod ==
  /\ pc = "idle"
  /\ \E lhs \in U128Samples, rhs \in U128Samples :
       \E r \in {OperatorMod(lhs, rhs, NDEBUG)} :
           /\ op' = "uint128_t::operator%"
           /\ args' = [lhs |-> lhs, rhs |-> rhs]
           /\ pc' = r.outcome
           /\ out' \in OperatorWrites(r)
  /\ UNCHANGED <<NDEBUG, threads, mem, access, frame>>

CallInt128DivMod ==
  /\ pc = "idle"
  /\ \E dividend \in Int128Samples, divisor \in Int128Samples :
       \E r \in {Int128DivMod(dividend, divisor, NDEBUG)} :
           /\ op' = "int128_t::DivMod"
           /\ args' = [dividend |-> dividend, divisor |-> divisor]
           /\ pc' = r.outcome
           /\ out' \in DivModWrites(r)
  /\ UNCHANGED <<NDEBUG, threads, mem, access, frame>>

CallInt128OperatorDiv ==
  /\ pc = "idle"
  /\ \E lhs \in Int128Samples, rhs \in Int128Samples :
       \E r \in {Int128OperatorDiv(lhs, rhs, NDEBUG)} :
           /\ op' = "int128_t::operator/"
           /\ args' = [lhs |-> lhs, rhs |-> rhs]
           /\ pc' = r.outcome
           /\ out' \in OperatorWrites(r)
  /\ UNCHANGED <<NDEBUG, threads, mem, access, frame>>

CallInt128OperatorMod ==
  /\ pc = "idle"
  /\ \E lhs \in Int128Samples, rhs \in Int128Samples :
       \E r \in {Int128OperatorMod(lhs, rhs, NDEBUG)} :
           /\ op' = "int128_t::operator%"
           /\ args' = [lhs |-> lhs, rhs |-> rhs]
           /\ pc' = r.outcome
           /\ out' \in OperatorWrites(r)
  /\ UNCHANGED <<NDEBUG, threads, mem, access, frame>>

CallOperatorPlus ==
  /\ pc = "idle"
  /\ \E lhs \in U128Samples, rhs \in U128Samples :
       /\ op' = "uint128_t::operator+"
       /\ args' = [lhs |-> lhs, rhs |-> rhs]
       /\ pc' = "returned"
       /\ out' = [result |-> OperatorPlus(lhs, rhs)]
  /\ UNCHANGED <<NDEBUG, threads, mem, access, frame>>

CallOperatorMinus ==
  /\ pc = "idle"
  /\ \E lhs \in U128Samples, rhs \in U128Samples :
       /\ op' = "uint128_t::operator-"
       /\ args' = [lhs |-> lhs, rhs |-> rhs]
       /\ pc' = "returned"
       /\ out' = [result |-> OperatorMinus(lhs, rhs)]
  /\ UNCHANGED <<NDEBUG, threads, mem, access, frame>>

CallOperatorMul ==
  /\ pc = "idle"
  /\ \E lhs \in U128Samples, rhs \in U128Samples :
       /\ op' = "uint128_t::operator*"
       /\ args' = [lhs |-> lhs, rhs |-> rhs]
       /\ pc' = "returned"
       /\ out' = [result |-> OperatorMul(lhs, rhs)]
  /\ UNCHANGED <<NDEBUG, threads, mem, access, frame>>

CallOperatorShl ==
  /\ pc = "idle"
  /\ \E lhs \in U128Samples, amount \in ShiftAmounts :
       /\ op' = "uint128_t::operator<<"
       /\ args' = [lhs |-> lhs, amount |-> amount]
       /\ pc' = "returned"
       /\ out' = [result |-> OperatorShl(lhs, amount),
                  shifts |-> OperatorShlShifts(amount)]
  /\ UNCHANGED <<NDEBUG, threads, mem, access, frame>>

CallOperatorShr ==
  /\ pc = "idle"
  /\ \E lhs \in U128Samples, amount \in ShiftAmounts :
       /\ op' = "uint128_t::operator>>"
       /\ args' = [lhs |-> lhs, amount |-> amount]
       /\ pc' = "returned"
       /\ out' = [result |-> OperatorShr(lhs, amount),
                  shifts |-> OperatorShrShifts(amount)]
  /\ UNCHANGED <<NDEBUG, threads, mem, access, frame>>

\* the six comparison operators applied to one pair of operands
CallCompare ==
  /\ pc = "idle"
  /\ \E lhs \in U128Samples, rhs \in U128Samples :
       /\ op' = "uint128_t::compare"
       /\ args' = [lhs |-> lhs, rhs |-> rhs]
       /\ pc' = "returned"
       /\ out' = [eq |-> OperatorEq(lhs, rhs), ne |-> OperatorNe(lhs, rhs),
                  lt |-> OperatorLt(lhs, rhs), gt |-> OperatorGt(lhs, rhs),
                  le |-> OperatorLe(lhs, rhs), ge |-> OperatorGe(lhs, rhs)]
  /\ UNCHANGED <<NDEBUG, threads, mem, access, frame>>

\* uint128_t(v) for a native integer v
CallConstruct ==
  /\ pc = "idle"
  /\ \E t \in ConstructorTypes :
       \E v \in NativeSamples(t) :
         /\ op' = "uint128_t::uint128_t"
         /\ args' = [type |-> t, v |-> v]
         /\ pc' = "returned"
         /\ out' = [result |-> Uint128FromNative(v, t)]
  /\ UNCHANGED <<NDEBUG, threads, mem, access, frame>>

\* static_cast<T>(v) for a uint128_t v and an integer type T
CallConvert ==
  /\ pc = "idle"
  /\ \E t \in ConversionTypes, v \in U128Samples :
       /\ op' = "uint128_t::operator T"
       /\ args' = [type |-> t, v |-> v]
       /\ pc' = "returned"
       /\ out' = [result |-> Uint128ToNative(v, t)]
  /\ UNCHANGED <<NDEBUG, threads, mem, access, frame>>

\* static_cast<bool>(v) for a uint128_t v
CallOperatorBool ==
  /\ pc = "idle"
  /\ \E v \in U128Samples :
       /\ op' = "uint128_t::operator bool"
       /\ args' = [type |-> "bool", v |-> v]
       /\ pc' = "returned"
       /\ out' = [result |-> Uint128ToBool(v)]
  /\ UNCHANGED <<NDEBUG, threads, mem, access, frame>>

\* MakeUint128(high, low) and the two accessors applied to its result
CallMakeUint128 ==
  /\ pc = "idle"
  /\ \E high \in MagSamples, low \in MagSamples :
       \E v \in {MakeUint128(high, low)} :
         /\ op' = "MakeUint128"
         /\ args' = [high |-> high, low |-> low]
         /\ pc' = "returned"
         /\ out' = [result |-> v, high |-> Uint128High64(v), low |-> Uint128Low64(v)]
  /\ UNCHANGED <<NDEBUG, threads, mem, access, frame>>

\* the two accessors applied to a value, and the value made of their results
CallHalves ==
  /\ pc = "idle"
  /\ \E v \in U128Samples :
       /\ op' = "Uint128High64, Uint128Low64"
       /\ args' = [v |-> v]
       /\ pc' = "returned"
       /\ out' = [high |-> Uint128High64(v), low |-> Uint128Low64(v),
                  result |-> MakeUint128(Uint128High64(v), Uint128Low64(v))]
  /\ UNCHANGED <<NDEBUG, threads, mem, access, frame>>

\* uint128_t(v) for an int128_t v, and the int128_t made of its halves
CallUint128FromInt128 ==
  /\ pc = "idle"
  /\ \E v \in Int128Samples :
       \E u \in {Uint128FromInt128(v)} :
         /\ op' = "uint128_t::uint128_t(int128_t)"
         /\ args' = [v |-> v]
         /\ pc' = "returned"
         /\ out' = [result |-> u,
                    back |-> MakeInt128(BitCastToSigned(Uint128High64(u)),
                                        Uint128Low64(u))]
  /\ UNCHANGED <<NDEBUG, threads, mem, access, frame>>

\* int128_t_internal::BitCastToSigned(u)
CallBitCastToSigned ==
  /\ pc = "idle"
  /\ \E u \in MagSamples :
       /\ op' = "BitCastToSigned"
       /\ args' = [v |-> u]
       /\ pc' = "returned"
       /\ out' = [result |-> BitCastToSigned(u)]
  /\ UNCHANGED <<NDEBUG, threads, mem, access, frame>>

CallToFormattedString ==
  /\ pc = "idle"
  /\ \E v \in FormatSamples, flags \in FormatFlags :
       /\ op' = "uint128_t::ToFormattedString"
       /\ args' = [v |-> v, flags |-> flags]
       /\ pc' = "returned"
       /\ \E c \in {FormatChunks(v, FormatDiv(flags), NDEBUG)} :
            out' = [result |-> FormatWrite(c, flags).str, chunks |-> c]
  /\ UNCHANGED <<NDEBUG, threads, mem, access, frame>>

CallInt128ToFormattedString ==
  /\ pc = "idle"
  /\ \E v \in Int128FormatSamples, flags \in FormatFlags :
       /\ op' = "int128_t::ToFormattedString"
       /\ args' = [v |-> v, flags |-> flags]
       /\ pc' = "returned"
       /\ out' = [result |-> Int128ToFormattedString(v, flags, NDEBUG)]
  /\ UNCHANGED <<NDEBUG, threads, mem, access, frame>>

\* ---------------------------------------------------------------------------
\* The tests' parallel loop (test_uint128.cpp): one action per thread step.
\* A call's parameters and locals live in the calling thread's registers
\* (threads[t]); named objects live in mem.
\* ---------------------------------------------------------------------------

StepOf(t, reads, writes) == [thread |-> t, reads |-> reads, writes |-> writes]

\* for (uint64_t v = ...): the thread starts an iteration with its own v
ThreadIteration(t) ==
  /\ threads[t].pc = "start"
  /\ \E v \in TestDivisors :
       mem' = Store(mem, LocalOf(t, "v"), v)
  /\ threads' = [threads EXCEPT ![t] = [pc |-> "call"]]
  /\ access' = StepOf(t, {}, {LocalOf(t, "v")})
  /\ UNCHANGED <<NDEBUG, pc, op, args, out, frame>>

\* uint128_t::DivMod(x, v, &y, &r): the arguments are copied into the call,
\* the body computes on the copies
ThreadDivModCall(t) ==
  /\ threads[t].pc = "call"
  /\ \E res \in {TestDivMod[<<mem[SharedOf("x")],
                                Uint128FromU64(mem[LocalOf(t, "v")]), NDEBUG>>]} :
       threads' = [threads EXCEPT ![t] =
                     IF res.outcome = "returned"
                     THEN [pc |-> "quotient_ret", quotient |-> res.quotient,
                           remainder |-> res.remainder]
                     ELSE [pc |-> res.outcome]]
  /\ access' = StepOf(t, {SharedOf("x"), LocalOf(t, "v")}, {})
  /\ UNCHANGED <<NDEBUG, pc, op, args, out, mem, frame>>

\* *quotient_ret = quotient;
ThreadWriteQuotient(t) ==
  /\ threads[t].pc = "quotient_ret"
  /\ mem' = Store(mem, LocalOf(t, "y"), threads[t].quotient)
  /\ threads' = [threads EXCEPT ![t] =
                   [pc |-> "remainder_ret", remainder |-> threads[t].remainder]]
  /\ access' = StepOf(t, {}, {LocalOf(t, "y")})
  /\ UNCHANGED <<NDEBUG, pc, op, args, out, frame>>

\* *remainder_ret = dividend;
ThreadWriteRemainder(t) ==
  /\ threads[t].pc = "remainder_ret"
  /\ mem' = Store(mem, LocalOf(t, "r"), threads[t].remainder)
  /\ threads' = [threads EXCEPT ![t] = [pc |-> "multiply"]]
  /\ access' = StepOf(t, {}, {LocalOf(t, "r")})
  /\ UNCHANGED <<NDEBUG, pc, op, args, out, frame>>

\* y * v
ThreadMultiply(t) ==
  /\ threads[t].pc = "multiply"
  /\ threads' = [threads EXCEPT ![t] =
                   [pc |-> "add",
                    product |-> OperatorMul(mem[LocalOf(t, "y")],
                                            Uint128FromU64(mem[LocalOf(t, "v")]))]]
  /\ access' = StepOf(t, {LocalOf(t, "y"), LocalOf(t, "v")}, {})
  /\ UNCHANGED <<NDEBUG, pc, op, args, out, mem, frame>>

\* uint128_t z = ... + r;
ThreadAdd(t) ==
  /\ threads[t].pc = "add"
  /\ mem' = Store(mem, LocalOf(t, "z"),
                  OperatorPlus(threads[t].product, mem[LocalOf(t, "r")]))
  /\ threads' = [threads EXCEPT ![t] = [pc |-> "compare"]]
  /\ access' = StepOf(t, {LocalOf(t, "r")}, {LocalOf(t, "z")})
  /\ UNCHANGED <<NDEBUG, pc, op, args, out, frame>>

\* if (z != x) fprintf(stderr, "Error ...")
ThreadCompare(t) ==
  /\ threads[t].pc = "compare"
  /\ threads' = [threads EXCEPT ![t] =
                   [pc |-> "done",
                    error |-> OperatorNe(mem[LocalOf(t, "z")], mem[SharedOf("x")])]]
  /\ access' = StepOf(t, {LocalOf(t, "z"), SharedOf("x")}, {})
  /\ UNCHANGED <<NDEBUG, pc, op, args, out, mem, frame>>

\* end of the loop body: r, y, z go out of scope and the thread takes its
\* next value of v
ThreadEndIteration(t) ==
  /\ threads[t].pc = "done"
  /\ mem' = [loc \in {l \in DOMAIN mem : Owner(l) # t} |-> mem[loc]]
  /\ threads' = [threads EXCEPT ![t] = [pc |-> "start"]]
  /\ access' = StepOf(t, {}, {})
  /\ UNCHANGED <<NDEBUG, pc, op, args, out, frame>>

\* the loop body run by one thread with nothing else running
RunAlone(x, v, ndebug) ==
  LET res == TestDivMod[<<x, Uint128FromU64(v), ndebug>>]
      z == OperatorPlus(OperatorMul(res.quotient, Uint128FromU64(v)), res.remainder)
  IN  [y |-> res.quotient, r |-> res.remainder, z |-> z, error |-> OperatorNe(z, x)]

\* CountLeadingZeros64 built without a hardware instruction (the #else branch)
CallCountLeadingZeros64Slow ==
  /\ pc = "idle"
  /\ \E n \in ClzSamples :
       /\ op' = "CountLeadingZeros64Slow"
       /\ args' = [n |-> n]
       /\ \E r \in {CountLeadingZeros64Slow(n)} :
            /\ pc' = r.outcome
            /\ out' = r
  /\ UNCHANGED <<NDEBUG, threads, mem, access, frame>>

\* -v on a uint128_t, and v + (-v)
CallOperatorNeg ==
  /\ pc = "idle"
  /\ \E v \in NegSamples :
       /\ op' = "uint128_t::operator-"
       /\ args' = [v |-> v]
       /\ pc' = "returned"
       /\ \E r \in {OperatorNeg(v)} :
            out' = [result |-> r, sum |-> OperatorPlus(v, r)]
  /\ UNCHANGED <<NDEBUG, threads, mem, access, frame>>

CallUnsignedAbsoluteValue ==
  /\ pc = "idle"
  /\ \E u \in NegSamples :
       /\ op' = "UnsignedAbsoluteValue"
       /\ args' = [v |-> Int128FromBits(u)]
       /\ pc' = "returned"
       /\ out' = [result |-> UnsignedAbsoluteValue(Int128FromBits(u))]
  /\ UNCHANGED <<NDEBUG, threads, mem, access, frame>>

\* uint128_t(float), uint128_t(double), uint128_t(long double)
CallConstructFromFloat ==
  /\ pc = "idle"
  /\ \E t \in FloatTypes :
       \E v \in FloatSamples(t) :
         \E r \in {MakeUint128FromFloat(v, t, NDEBUG)} :
           /\ op' = "uint128_t::uint128_t(T) floating"
           /\ args' = [type |-> t, v |-> v]
           /\ pc' = r.outcome
           /\ out' \in OperatorWrites(r)
  /\ UNCHANGED <<NDEBUG, threads, mem, access, frame>>

\* ---------------------------------------------------------------------------
\* uint128_t::DivMod run statement by statement.  frame holds the position,
\* the arguments, the live locals, the arguments Fls128 and
\* CountLeadingZeros64 were called with, the number of loop bodies run and
\* the writes through the two out-parameters.
\* ---------------------------------------------------------------------------

Frame(position, dividend, divisor, flsArgs, locals) ==
  [pc |-> position, dividend0 |-> dividend, divisor0 |-> divisor,
   fls |-> flsArgs,
   clz |-> [k \in 1..Len(flsArgs) |-> Fls128ClzArg(flsArgs[k])],
   iterations |-> 0,
   quotient_writes |-> 0, remainder_writes |-> 0,
   quotient_ret |-> NothingWritten, remainder_ret |-> NothingWritten,
   locals |-> locals]

\* the call up to the loop: the assert, the two early returns (their values
\* are then written by the two write steps), the alignment
DivModCall ==
  /\ frame.pc = "idle"
  /\ \E dividend \in StepDividends, divisor \in StepDivisors :
       frame' =
         IF ~NDEBUG /\ ~OperatorNe(divisor, Uint128FromInt(0))
         THEN Frame("assert", dividend, divisor, <<>>, <<>>)
         ELSE IF ~DivModPastEarlyReturns(dividend, divisor)
         THEN Frame("quotient_ret", dividend, divisor, <<>>,
                    IF OperatorGt(divisor, dividend)
                    THEN [quotient |-> Uint128FromInt(0), dividend |-> dividend]
                    ELSE [quotient |-> Uint128FromInt(1),
                          dividend |-> Uint128FromInt(0)])
         ELSE IF ~(Fls128Defined(dividend) /\ Fls128Defined(divisor))
         THEN Frame("undefined", dividend, divisor, <<dividend, divisor>>, <<>>)
         ELSE Frame("loop", dividend, divisor, <<dividend, divisor>>,
                    DivModEnter(dividend, divisor,
                                Fls128(dividend) - Fls128(divisor)))
  /\ UNCHANGED <<NDEBUG, pc, op, args, out, threads, mem, access>>

\* one body of the shift-subtract loop
DivModIterate ==
  /\ frame.pc = "loop"
  /\ DivModLoopCondition(frame.locals)
  /\ frame' = [frame EXCEPT !.locals = DivModStep(@), !.iterations = @ + 1]
  /\ UNCHANGED <<NDEBUG, pc, op, args, out, threads, mem, access>>

\* i <= shift is false: the loop is left
DivModLoopExit ==
  /\ frame.pc = "loop"
  /\ ~DivModLoopCondition(frame.locals)
  /\ frame' = [frame EXCEPT !.pc = "quotient_ret"]
  /\ UNCHANGED <<NDEBUG, pc, op, args, out, threads, mem, access>>

\* *quotient_ret = quotient;
DivModWriteQuotient ==
  /\ frame.pc = "quotient_ret"
  /\ frame' = [frame EXCEPT !.pc = "remainder_ret",
                            !.quotient_ret = frame.locals.quotient,
                            !.quotient_writes = @ + 1]
  /\ UNCHANGED <<NDEBUG, pc, op, args, out, threads, mem, access>>

\* *remainder_ret = dividend;
DivModWriteRemainder ==
  /\ frame.pc = "remainder_ret"
  /\ frame' = [frame EXCEPT !.pc = "returned",
                            !.remainder_ret = frame.locals.dividend,
                            !.remainder_writes = @ + 1]
  /\ UNCHANGED <<NDEBUG, pc, op, args, out, threads, mem, access>>

Next ==
  \/ CallUint128DivMod
  \/ CallOperatorDiv
  \/ CallOperatorMod
  \/ CallInt128DivMod
  \/ CallInt128OperatorDiv
  \/ CallInt128OperatorMod
  \/ CallOperatorPlus
  \/ CallOperatorMinus
  \/ CallOperatorMul
  \/ CallOperatorShl
  \/ CallOperatorShr
  \/ CallCompare
  \/ CallConstruct
  \/ CallConvert
  \/ CallOperatorBool
  \/ CallMakeUint128
  \/ CallHalves
  \/ CallUint128FromInt128
  \/ CallBitCastToSigned
  \/ CallToFormattedString
  \/ CallInt128ToFormattedString
  \/ DivModCall
  \/ DivModIterate
  \/ DivModLoopExit
  \/ DivModWriteQuotient
  \/ DivModWriteRemainder
  \/ CallCountLeadingZeros64Slow
  \/ CallConstructFromFloat
  \/ CallOperatorNeg
  \/ CallUnsignedAbsoluteValue
  \/ \E t \in Threads : ThreadIteration(t)
  \/ \E t \in Threads : ThreadDivModCall(t)
  \/ \E t \in Threads : ThreadWriteQuotient(t)
  \/ \E t \in Threads : ThreadWriteRemainder(t)
  \/ \E t \in Threads : ThreadMultiply(t)
  \/ \E t \in Threads : ThreadAdd(t)
  \/ \E t \in Threads : ThreadCompare(t)
  \/ \E t \in Threads : ThreadEndIteration(t)

Spec == Init /\ [][Next]_vars

\* the unsigned division engine and its two operators
NextDiv == CallUint128DivMod \/ CallOperatorDiv \/ CallOperatorMod

SpecDiv == Init /\ [][NextDiv]_vars

\* signed division
NextSDiv == CallInt128DivMod \/ CallInt128OperatorDiv \/ CallInt128OperatorMod

SpecSDiv == Init /\ [][NextSDiv]_vars

\* addition, subtraction, multiplication
NextArith == CallOperatorPlus \/ CallOperatorMinus \/ CallOperatorMul

SpecArith == Init /\ [][NextArith]_vars

\* the two combined division entry points
NextDivMod == CallUint128DivMod \/ CallInt128DivMod

SpecDivMod == Init /\ [][NextDivMod]_vars

\* shifts
NextShift == CallOperatorShl \/ CallOperatorShr

SpecShift == Init /\ [][NextShift]_vars

\* comparisons
NextCompare == CallCompare

SpecCompare == Init /\ [][NextCompare]_vars

\* construction from and conversion to the native integer types
NextConvert ==
  \/ CallConstruct
  \/ CallConvert
  \/ CallOperatorBool
  \/ CallMakeUint128
  \/ CallHalves
  \/ CallUint128FromInt128
  \/ CallBitCastToSigned

SpecConvert == Init /\ [][NextConvert]_vars

\* the unsigned formatter
NextFormat == CallToFormattedString

SpecFormat == Init /\ [][NextFormat]_vars

\* the signed formatter
NextSFormat == CallInt128ToFormattedString

SpecSFormat == Init /\ [][NextSFormat]_vars

\* the test's parallel loop: the threads' steps, interleaved
NextThreads ==
  \/ \E t \in Threads : ThreadIteration(t)
  \/ \E t \in Threads : ThreadDivModCall(t)
  \/ \E t \in Threads : ThreadWriteQuotient(t)
  \/ \E t \in Threads : ThreadWriteRemainder(t)
  \/ \E t \in Threads : ThreadMultiply(t)
  \/ \E t \in Threads : ThreadAdd(t)
  \/ \E t \in Threads : ThreadCompare(t)
  \/ \E t \in Threads : ThreadEndIteration(t)

SpecThreads == Init /\ [][NextThreads]_vars

\* the software leading-zero count
NextClz == CallCountLeadingZeros64Slow

SpecClz == Init /\ [][NextClz]_vars

\* uint128_t::DivMod statement by statement
NextDivSteps ==
  \/ DivModCall
  \/ DivModIterate
  \/ DivModLoopExit
  \/ DivModWriteQuotient
  \/ DivModWriteRemainder

SpecDivSteps == Init /\ [][NextDivSteps]_vars

\* a call that has started runs on: each statement is eventually executed
SpecDivStepsFair == SpecDivSteps /\ WF_vars(NextDivSteps)

\* construction from a floating-point value
NextFloat == CallConstructFromFloat

SpecFloat == Init /\ [][NextFloat]_vars

\* unsigned negation and the absolute value built on it
NextNeg == CallOperatorNeg \/ CallUnsignedAbsoluteValue

SpecNeg == Init /\ [][NextNeg]_vars

\* ------------------------------------------------------------------------
\* Mathematical integers of the properties: naturals as digit tuples of
\* WideLen bytes, wide enough for the product of two 128-bit values plus a
\* 128-bit value, so that no operation below wraps.
\* ------------------------------------------------------------------------

WideLen == 4 * LimbLen + 1

NatLit(n) == Digits(n, WideLen)

\* hi * 2^64 + lo
NatOf64(x) == Resize(x, WideLen)
NatOf128(v) == Resize(Uint128Low64(v) \o Uint128High64(v), WideLen)

NatAdd(x, y) == AddDigits(x, y)
NatSub(x, y) == SubDigits(x, y)
NatMul(x, y) == MulDigits(x, y)
NatLess(x, y) == LessDigits(x, y)
NatLeq(x, y) == ~LessDigits(y, x)

\* 2^k, for 0 <= k <= 128
NatPow2(k) == ShlDigits(NatLit(1), k)

\* x mod 2^128 and x mod 2^64
NatMod128(x) == Resize(Resize(x, 2 * LimbLen), WideLen)
NatMod64(x) == Resize(Resize(x, LimbLen), WideLen)

\* q = floor(a / b) and r = a mod b, for b # 0
NatIsDivMod(a, b, q, r) == NatAdd(NatMul(q, b), r) = a /\ NatLess(r, b)

\* |v| and the sign of the two's-complement value hi * 2^64 + lo of an
\* int128_t (hi a signed mathematical integer)
NatAbsOfInt128(v) ==
  IF Int128High64(v).neg
  THEN NatSub(NatMul(NatOf64(Int128High64(v).mag), NatPow2(64)), NatOf64(Int128Low64(v)))
  ELSE NatAdd(NatMul(NatOf64(Int128High64(v).mag), NatPow2(64)), NatOf64(Int128Low64(v)))

IsNegativeInt128(v) == Int128High64(v).neg

\* named values
Pow2U128(k) == MakeUint128(IF k >= 64 THEN Shl64(U64(1), k - 64) ELSE Zero64,
                           IF k >= 64 THEN Zero64 ELSE Shl64(U64(1), k))
ZeroU128 == MakeUint128(Zero64, Zero64)
ZeroInt128 == MakeInt128([neg |-> FALSE, mag |-> Zero64], Zero64)
MinusOneInt128 == MakeInt128([neg |-> TRUE, mag |-> U64(1)], Max64)
OneInt128 == MakeInt128([neg |-> FALSE, mag |-> Zero64], U64(1))

Returned(name) == pc = "returned" /\ op = name

\* ------------------------------------------------------------------------
\* Unsigned division: C1, C2
\* ------------------------------------------------------------------------

\* what the repository tests compute: quotient * divisor + remainder, with
\* the library's own wrapping operator* and operator+
Reconstruct(q, b, r) == OperatorPlus(OperatorMul(q, b), r)

\* C1: for all unsigned a and b # 0, the quotient q and the remainder r of
\* uint128_t::DivMod(a, b), and a / b with a % b, satisfy q * b + r == a under
\* the library's wrapping multiply and add.
C1_DivModIdentity ==
  /\ (Returned("uint128_t::DivMod") /\ args.divisor # ZeroU128)
       => Reconstruct(out.quotient_ret, args.divisor, out.remainder_ret) = args.dividend
  /\ (Returned("uint128_t::operator/") /\ args.rhs # ZeroU128)
       => LET m == OperatorMod(args.lhs, args.rhs, NDEBUG)
          IN  /\ m.outcome = "returned"
              /\ Reconstruct(out.result, args.rhs, m.value) = args.lhs

\* the dividend of the repository test, 2^120, divided by a divisor of the
\* test's range that leaves a quotient above 1 and a remainder
C1_Witness ==
  /\ Returned("uint128_t::DivMod")
  /\ args.dividend = Pow2U128(120)
  /\ args.divisor = MakeUint128(Zero64, U64(16777215))
  /\ out.remainder_ret # ZeroU128
  /\ OperatorGt(out.quotient_ret, Uint128FromInt(1))

\* C2: uint128_t::DivMod(a, b) with b # 0 returns floor(a / b) and
\* a - b * floor(a / b), with remainder < b, as mathematical integers; b > a
\* gives (0, a), b == a gives (1, 0), 2^120 / 2^3 gives (2^117, 0); operator/
\* and operator% return the quotient and the remainder of the same division.
C2_DivModFloor ==
  /\ (Returned("uint128_t::DivMod") /\ args.divisor # ZeroU128)
       => /\ NatIsDivMod(NatOf128(args.dividend), NatOf128(args.divisor),
                         NatOf128(out.quotient_ret), NatOf128(out.remainder_ret))
          /\ NatLess(NatOf128(args.dividend), NatOf128(args.divisor))
               => /\ out.quotient_ret = ZeroU128
                  /\ out.remainder_ret = args.dividend
          /\ args.divisor = args.dividend
               => /\ out.quotient_ret = Pow2U128(0)
                  /\ out.remainder_ret = ZeroU128
          /\ (args.dividend = Pow2U128(120) /\ args.divisor = Pow2U128(3))
               => /\ out.quotient_ret = Pow2U128(117)
                  /\ out.remainder_ret = ZeroU128
  /\ (Returned("uint128_t::operator/") /\ args.rhs # ZeroU128)
       => /\ NatLeq(NatMul(NatOf128(out.result), NatOf128(args.rhs)), NatOf128(args.lhs))
          /\ NatLess(NatOf128(args.lhs),
                     NatAdd(NatMul(NatOf128(out.result), NatOf128(args.rhs)),
                            NatOf128(args.rhs)))
  /\ (Returned("uint128_t::operator%") /\ args.rhs # ZeroU128)
       => LET d == Uint128DivMod(args.lhs, args.rhs, NDEBUG)
          IN  /\ out.result = d.remainder
              /\ NatIsDivMod(NatOf128(args.lhs), NatOf128(args.rhs),
                             NatOf128(d.quotient), NatOf128(out.result))

\* the scenario DivMod(2^120, 2^3) has returned
C2_Witness ==
  /\ Returned("uint128_t::DivMod")
  /\ args.dividend = Pow2U128(120)
  /\ args.divisor = Pow2U128(3)
  /\ out.quotient_ret = Pow2U128(117)

\* ------------------------------------------------------------------------
\* Signed division: C3, C4, C5, C6
\* ------------------------------------------------------------------------

\* a signed call whose arguments are within the contract of division
SignedInContract(a, b) ==
  /\ b # ZeroInt128
  /\ ~(a = Int128Min /\ b = MinusOneInt128)

\* C3: for all signed a and b with b # 0 and not (a == Int128Min and b == -1),
\* the quotient q and remainder r of int128_t::DivMod(a, b) satisfy
\* q * b + r == a in two's-complement 128-bit arithmetic, and r is 0 or has
\* the sign of a.
C3_SignedDivModIdentity ==
  (Returned("int128_t::DivMod") /\ SignedInContract(args.dividend, args.divisor))
    => /\ Reconstruct(Uint128FromInt128(out.quotient_ret),
                      Uint128FromInt128(args.divisor),
                      Uint128FromInt128(out.remainder_ret))
            = Uint128FromInt128(args.dividend)
       /\ \/ out.remainder_ret = ZeroInt128
          \/ IsNegativeInt128(out.remainder_ret) = IsNegativeInt128(args.dividend)

\* a negative dividend, a positive divisor and a remainder that is not 0
C3_Witness ==
  /\ Returned("int128_t::DivMod")
  /\ IsNegativeInt128(args.dividend)
  /\ ~IsNegativeInt128(args.divisor)
  /\ args.divisor # ZeroInt128
  /\ out.remainder_ret # ZeroInt128
  /\ IsNegativeInt128(out.remainder_ret)
  /\ IsNegativeInt128(out.quotient_ret)

\* q and r are |a| div |b| and |a| mod |b| with the signs of truncating division
IsTruncatedDivMod(a, b, q, r) ==
  /\ NatIsDivMod(NatAbsOfInt128(a), NatAbsOfInt128(b),
                 NatAbsOfInt128(q), NatAbsOfInt128(r))
  /\ IsNegativeInt128(q) <=> (q # ZeroInt128 /\ IsNegativeInt128(a) # IsNegativeInt128(b))
  /\ IsNegativeInt128(r) <=> (r # ZeroInt128 /\ IsNegativeInt128(a))

\* C4: signed division truncates toward zero: the quotient is |a| div |b|
\* negated exactly when the signs differ, the remainder |a| mod |b| negated
\* exactly when a is negative, so |remainder| < |b|; also when a or b is
\* Int128Min; DivMod, operator/ and operator% agree.
C4_SignedDivisionTruncates ==
  /\ (Returned("int128_t::DivMod") /\ SignedInContract(args.dividend, args.divisor))
       => /\ IsTruncatedDivMod(args.dividend, args.divisor,
                               out.quotient_ret, out.remainder_ret)
          /\ (args.dividend = Int128Min /\ args.divisor = OneInt128)
               => (out.quotient_ret = Int128Min /\ out.remainder_ret = ZeroInt128)
          /\ (args.dividend = Int128Min /\ args.divisor = Int128Min)
               => (out.quotient_ret = OneInt128 /\ out.remainder_ret = ZeroInt128)
          /\ (args.dividend # Int128Min /\ args.divisor = Int128Min)
               => (out.quotient_ret = ZeroInt128 /\ out.remainder_ret = args.dividend)
  /\ (Returned("int128_t::operator/") /\ SignedInContract(args.lhs, args.rhs))
       => LET d == Int128DivMod(args.lhs, args.rhs, NDEBUG)
          IN  /\ out.result = d.quotient
              /\ IsTruncatedDivMod(args.lhs, args.rhs, out.result, d.remainder)
  /\ (Returned("int128_t::operator%") /\ SignedInContract(args.lhs, args.rhs))
       => LET d == Int128DivMod(args.lhs, args.rhs, NDEBUG)
          IN  /\ out.result = d.remainder
              /\ IsTruncatedDivMod(args.lhs, args.rhs, d.quotient, out.result)

\* Int128Min divided by a negative value other than -1 and Int128Min: the
\* quotient is positive and the remainder negative
C4_Witness ==
  /\ Returned("int128_t::DivMod")
  /\ args.dividend = Int128Min
  /\ IsNegativeInt128(args.divisor)
  /\ out.quotient_ret # ZeroInt128
  /\ ~IsNegativeInt128(out.quotient_ret)
  /\ IsNegativeInt128(out.remainder_ret)

SignedDivisionOps == {"int128_t::DivMod", "int128_t::operator/", "int128_t::operator%"}

\* the two arguments of a call, whatever their names
FirstArg == IF op \in {"uint128_t::DivMod", "int128_t::DivMod"} THEN args.dividend ELSE args.lhs
SecondArg == IF op \in {"uint128_t::DivMod", "int128_t::DivMod"} THEN args.divisor ELSE args.rhs

\* C5: in a debug build, int128_t::DivMod(Int128Min, -1), Int128Min / -1 and
\* Int128Min % -1 stop at their assertion and return nothing.
C5_MinOverMinusOneAsserts ==
  (/\ ~NDEBUG
   /\ op \in SignedDivisionOps
   /\ FirstArg = Int128Min
   /\ SecondArg = MinusOneInt128)
    => (pc = "assert" /\ DOMAIN out = {})

C5_Witness ==
  /\ ~NDEBUG
  /\ op = "int128_t::operator/"
  /\ args.lhs = Int128Min
  /\ args.rhs = MinusOneInt128
  /\ pc = "assert"

\* C6: with assertions enabled, uint128_t::DivMod with divisor == 0, and
\* int128_t::DivMod with divisor == 0 (absolute value 0), fail the assertion
\* divisor != 0 before anything is written to quotient_ret or remainder_ret,
\* for every dividend.
C6_DivisionByZeroAsserts ==
  /\ (~NDEBUG /\ op = "uint128_t::DivMod" /\ args.divisor = ZeroU128)
       => (pc = "assert" /\ DOMAIN out = {})
  /\ (~NDEBUG /\ op = "int128_t::DivMod" /\ args.divisor = ZeroInt128)
       => /\ UnsignedAbsoluteValue(args.divisor) = ZeroU128
          /\ pc = "assert"
          /\ DOMAIN out = {}

C6_Witness ==
  /\ ~NDEBUG
  /\ op = "int128_t::DivMod"
  /\ args.divisor = ZeroInt128
  /\ IsNegativeInt128(args.dividend)
  /\ pc = "assert"

\* ------------------------------------------------------------------------
\* Addition, subtraction, multiplication: C7, C8
\* ------------------------------------------------------------------------

\* 1 if the mathematical sum of the low limbs does not fit 64 bits
TrueCarry(lhs, rhs) ==
  IF NatLess(NatAdd(NatOf64(Uint128Low64(lhs)), NatOf64(Uint128Low64(rhs))), NatPow2(64))
  THEN 0 ELSE 1

\* 1 if the low limb of lhs is mathematically below the low limb of rhs
TrueBorrow(lhs, rhs) ==
  IF NatLess(NatOf64(Uint128Low64(lhs)), NatOf64(Uint128Low64(rhs))) THEN 1 ELSE 0

\* C7: a + b equals (a + b) mod 2^128 and a - b equals (a - b) mod 2^128; the
\* high limb receives a carry exactly when the low limb of the sum is below
\* the low limb of the left operand, and a borrow exactly when the low limb
\* of the left operand is below that of the right operand; nothing is raised.
C7_AddSubWrap ==
  /\ op \in {"uint128_t::operator+", "uint128_t::operator-"} => pc = "returned"
  /\ Returned("uint128_t::operator+")
       => /\ NatOf128(out.result)
               = NatMod128(NatAdd(NatOf128(args.lhs), NatOf128(args.rhs)))
          /\ Less64(Uint128Low64(out.result), Uint128Low64(args.lhs))
               <=> TrueCarry(args.lhs, args.rhs) = 1
          /\ NatOf64(Uint128High64(out.result))
               = NatMod64(NatAdd(NatAdd(NatOf64(Uint128High64(args.lhs)),
                                        NatOf64(Uint128High64(args.rhs))),
                                 NatLit(TrueCarry(args.lhs, args.rhs))))
  /\ Returned("uint128_t::operator-")
       => /\ NatOf128(out.result)
               = NatMod128(NatSub(NatAdd(NatOf128(args.lhs), NatPow2(128)),
                                  NatOf128(args.rhs)))
          /\ NatOf64(Uint128High64(out.result))
               = NatMod64(NatSub(NatSub(NatAdd(NatOf64(Uint128High64(args.lhs)),
                                               NatPow2(64)),
                                        NatOf64(Uint128High64(args.rhs))),
                                 NatLit(TrueBorrow(args.lhs, args.rhs))))

\* a sum whose low limb carries and whose value wraps at 2^128
C7_Witness ==
  /\ Returned("uint128_t::operator+")
  /\ args.lhs = MakeUint128(Max64, Max64)
  /\ args.rhs = MakeUint128(Zero64, U64(1))
  /\ out.result = ZeroU128

\* C8: the portable a * b equals the low 128 bits of the true product.
C8_MulLow128 ==
  Returned("uint128_t::operator*")
    => NatOf128(out.result)
         = NatMod128(NatMul(NatOf128(args.lhs), NatOf128(args.rhs)))

\* a product above 2^128 in which every partial product carries
C8_Witness ==
  /\ Returned("uint128_t::operator*")
  /\ args.lhs = MakeUint128(Max64, Max64)
  /\ args.rhs = MakeUint128(Max64, Max64)
  /\ out.result = MakeUint128(Zero64, U64(1))

\* ------------------------------------------------------------------------
\* Shifts: C9, C10
\* ------------------------------------------------------------------------

\* C9: for 0 <= k < 128, v << k equals (v * 2^k) mod 2^128 and v >> k equals
\* floor(v / 2^k); for k in [64, 128) the result comes from the opposite limb
\* alone; for k == 0 the value is unchanged.
C9_ShiftValues ==
  /\ Returned("uint128_t::operator<<")
       => /\ NatOf128(out.result)
               = NatMod128(NatMul(NatOf128(args.lhs), NatPow2(args.amount)))
          /\ args.amount >= 64
               => /\ Uint128Low64(out.result) = Zero64
                  /\ NatOf64(Uint128High64(out.result))
                       = NatMod64(NatMul(NatOf64(Uint128Low64(args.lhs)),
                                         NatPow2(args.amount - 64)))
          /\ args.amount = 0 => out.result = args.lhs
  /\ Returned("uint128_t::operator>>")
       => /\ NatLeq(NatMul(NatOf128(out.result), NatPow2(args.amount)),
                    NatOf128(args.lhs))
          /\ NatLess(NatOf128(args.lhs),
                     NatAdd(NatMul(NatOf128(out.result), NatPow2(args.amount)),
                            NatPow2(args.amount)))
          /\ args.amount >= 64
               => /\ Uint128High64(out.result) = Zero64
                  /\ NatLeq(NatMul(NatOf64(Uint128Low64(out.result)),
                                   NatPow2(args.amount - 64)),
                            NatOf64(Uint128High64(args.lhs)))
                  /\ NatLess(NatOf64(Uint128High64(args.lhs)),
                             NatAdd(NatMul(NatOf64(Uint128Low64(out.result)),
                                           NatPow2(args.amount - 64)),
                                    NatPow2(args.amount - 64)))
          /\ args.amount = 0 => out.result = args.lhs

\* a left shift by more than 64 that drops set bits of the low limb
C9_Witness ==
  /\ Returned("uint128_t::operator<<")
  /\ args.amount = 100
  /\ Uint128Low64(args.lhs) = <<16, 50, 84, 118, 152, 186, 220, 254>>
  /\ Uint128High64(out.result) # Zero64
  /\ Uint128Low64(out.result) = Zero64

\* C10: for 0 <= k < 64 such that the top k bits of v are zero,
\* (v << k) >> k == v.
C10_ShiftRoundTrip ==
  (/\ Returned("uint128_t::operator<<")
   /\ args.amount < 64
   /\ NatLess(NatOf128(args.lhs), NatPow2(128 - args.amount)))
    => OperatorShr(out.result, args.amount) = args.lhs

\* bits of the low limb have moved into the high limb and come back
C10_Witness ==
  /\ Returned("uint128_t::operator<<")
  /\ args.amount = 63
  /\ args.lhs = MakeUint128(U64(1), Max64)
  /\ Uint128High64(out.result) = Max64

\* ------------------------------------------------------------------------
\* Comparison: C11
\* ------------------------------------------------------------------------

\* exactly one of the three holds
ExactlyOne(x, y, z) ==
  (x \/ y \/ z) /\ ~(x /\ y) /\ ~(x /\ z) /\ ~(y /\ z)

\* C11: unsigned comparison is a total order that matches the value
\* hi * 2^64 + lo: exactly one of a < b, a == b, a > b holds; a == b iff both
\* limbs are equal; a < b iff hi(a) < hi(b), or hi(a) == hi(b) and
\* lo(a) < lo(b); <=, >= and != are the negations of >, < and ==.
C11_ComparisonTotalOrder ==
  Returned("uint128_t::compare")
    => /\ ExactlyOne(out.lt, out.eq, out.gt)
       /\ out.eq <=> (/\ Uint128High64(args.lhs) = Uint128High64(args.rhs)
                      /\ Uint128Low64(args.lhs) = Uint128Low64(args.rhs))
       /\ out.eq <=> (NatOf128(args.lhs) = NatOf128(args.rhs))
       /\ out.lt <=> NatLess(NatOf128(args.lhs), NatOf128(args.rhs))
       /\ out.gt <=> NatLess(NatOf128(args.rhs), NatOf128(args.lhs))
       /\ out.lt <=>
            \/ NatLess(NatOf64(Uint128High64(args.lhs)),
                       NatOf64(Uint128High64(args.rhs)))
            \/ /\ Uint128High64(args.lhs) = Uint128High64(args.rhs)
               /\ NatLess(NatOf64(Uint128Low64(args.lhs)),
                          NatOf64(Uint128Low64(args.rhs)))
       /\ out.le <=> ~out.gt
       /\ out.ge <=> ~out.lt
       /\ out.ne <=> ~out.eq

\* the high limbs decide against the low limbs: 2^64 > 2^64 - 1
C11_Witness ==
  /\ Returned("uint128_t::compare")
  /\ args.lhs = MakeUint128(U64(1), Zero64)
  /\ args.rhs = MakeUint128(Zero64, Max64)
  /\ out.gt /\ ~out.lt /\ ~out.eq /\ out.ge /\ ~out.le /\ out.ne

\* ------------------------------------------------------------------------
\* Construction and conversion: C12, C13
\* ------------------------------------------------------------------------

\* C12: constructing a uint128_t from a native integer n sign-extends: for a
\* negative signed n the high limb is all ones and the low limb is the 64-bit
\* two's-complement pattern of n, so the value is 2^128 + n; for a
\* non-negative signed n or any unsigned n the high limb is 0 and the low
\* limb is n.
C12_ConstructSignExtends ==
  Returned("uint128_t::uint128_t")
    => IF args.v.neg
       THEN /\ Uint128High64(out.result) = Max64
            /\ NatAdd(NatOf64(Uint128Low64(out.result)), NatOf64(args.v.mag))
                 = NatPow2(64)
            /\ NatAdd(NatOf128(out.result), NatOf64(args.v.mag)) = NatPow2(128)
       ELSE /\ Uint128High64(out.result) = Zero64
            /\ Uint128Low64(out.result) = args.v.mag
            /\ NatOf128(out.result) = NatOf64(args.v.mag)

\* uint128_t(INT_MIN) is 2^128 - 2^31
C12_Witness ==
  /\ Returned("uint128_t::uint128_t")
  /\ args.type = "int"
  /\ args.v = [neg |-> TRUE, mag |-> Shl64(U64(1), 31)]
  /\ out.result = MakeUint128(Max64, <<0, 0, 0, 128, 255, 255, 255, 255>>)

\* x mod 2^(8 * bytes)
NatModBytes(x, bytes) == Resize(Resize(x, bytes), WideLen)

IntegerConversions == {"uint128_t::operator T", "uint128_t::operator bool"}

C14_HalvesBitExact ==
  /\ Returned("MakeUint128")
       => /\ out.high = args.high
          /\ out.low = args.low
          /\ NatOf128(out.result)
               = NatAdd(NatMul(NatOf64(args.high), NatPow2(64)), NatOf64(args.low))
  /\ Returned("Uint128High64, Uint128Low64")
       => /\ OperatorEq(out.result, args.v)
          /\ NatOf128(args.v)
               = NatAdd(NatMul(NatOf64(out.high), NatPow2(64)), NatOf64(out.low))

\* halves that differ, so that an exchange of the two would show
C14_Witness ==
  /\ Returned("MakeUint128")
  /\ args.high = U64(1)
  /\ args.low = Bit63
  /\ out.high = U64(1)
  /\ out.low = Bit63
  /\ out.result # MakeUint128(Bit63, U64(1))

\* C15: conversion between int128_t and uint128_t reinterprets the same
\* 128 bits: uint128_t(v) has the low limb of v and the bit pattern of v's
\* signed high limb, so for negative v its value is v + 2^128; converting
\* back with MakeInt128(BitCastToSigned(high), low) reproduces v; and
\* BitCastToSigned maps u to u if u < 2^63, else to u - 2^64.
C15_SignedUnsignedBridge ==
  /\ Returned("uint128_t::uint128_t(int128_t)")
       => /\ Uint128Low64(out.result) = Int128Low64(args.v)
          /\ IF IsNegativeInt128(args.v)
             THEN /\ NatAdd(NatOf64(Uint128High64(out.result)),
                            NatOf64(Int128High64(args.v).mag)) = NatPow2(64)
                  /\ NatAdd(NatOf128(out.result), NatAbsOfInt128(args.v))
                       = NatPow2(128)
             ELSE /\ Uint128High64(out.result) = Int128High64(args.v).mag
                  /\ NatOf128(out.result) = NatAbsOfInt128(args.v)
          /\ out.back = args.v
  /\ Returned("BitCastToSigned")
       => IF NatLess(NatOf64(args.v), NatPow2(63))
          THEN out.result = [neg |-> FALSE, mag |-> args.v]
          ELSE /\ out.result.neg
               /\ NatAdd(NatOf64(out.result.mag), NatOf64(args.v)) = NatPow2(64)

\* the int128_t -1 becomes 2^128 - 1 and comes back as -1
C15_Witness ==
  /\ Returned("uint128_t::uint128_t(int128_t)")
  /\ args.v = MinusOneInt128
  /\ out.result = MakeUint128(Max64, Max64)
  /\ out.back = MinusOneInt128

\* ------------------------------------------------------------------------
\* Formatting: C16, C17, C18, C19
\* ------------------------------------------------------------------------

\* the value of a digit character
DigitValue(c) == CHOOSE d \in 0..15 : LowerDigits[d + 1] = c \/ UpperDigits[d + 1] = c

\* x * d + c for small d and c, in unbounded arithmetic
RECURSIVE MulAddSmallFrom(_, _, _, _)
MulAddSmallFrom(x, d, carry, i) ==
  IF i > Len(x) THEN <<>>
  ELSE <<(x[i] * d + carry) % 256>>
         \o MulAddSmallFrom(x, d, (x[i] * d + carry) \div 256, i + 1)

NatMulAddSmall(x, d, c) == MulAddSmallFrom(x, d, c, 1)

\* the number that the first n characters of the numeral s denote in the base
RECURSIVE ParseFrom(_, _, _)
ParseFrom(s, base, n) ==
  IF n = 0 THEN NatLit(0)
  ELSE NatMulAddSmall(ParseFrom(s, base, n - 1), base, DigitValue(s[n]))

\* the number of digits parsed in one block
ParseBlock == 15

\* base^ParseBlock
ParseBlockPower(base) ==
  ParseFrom(<<"1">> \o [i \in 1..ParseBlock |-> "0"], base, ParseBlock + 1)

\* the number that the numeral s denotes in the base: the number denoted by
\* all but its last block, times base^ParseBlock, plus that of its last block
RECURSIVE ParseNumeral(_, _)
ParseNumeral(s, base) ==
  IF Len(s) <= ParseBlock THEN ParseFrom(s, base, Len(s))
  ELSE NatAdd(NatMul(ParseNumeral(SubSeq(s, 1, Len(s) - ParseBlock), base),
                     ParseBlockPower(base)),
              ParseFrom(SubSeq(s, Len(s) - ParseBlock + 1, Len(s)), base, ParseBlock))

\* s is a canonical numeral of the base over the digit characters chars:
\* digits only, and no leading zero except in "0"
IsNumeral(s, base, chars) ==
  /\ Len(s) >= 1
  /\ \A i \in 1..Len(s) : \E d \in 1..base : s[i] = chars[d]
  /\ Len(s) > 1 => s[1] # "0"

\* the base in which the formatter renders a value under the flags
RenderBase(flags) ==
  IF flags.basefield = {"hex"} THEN 16 ELSE IF flags.basefield = {"oct"} THEN 8 ELSE 10

\* C16: uint128_t::ToFormattedString(v, dec) is the canonical base-10 numeral
\* of v (digits only, no leading zero except "0" for v == 0), so reading it
\* back as a decimal number gives Uint128High64(v) * 2^64 + Uint128Low64(v).
C16_DecimalRoundTrip ==
  (Returned("uint128_t::ToFormattedString") /\ RenderBase(args.flags) = 10)
    => /\ IsNumeral(out.result, 10, LowerDigits)
       /\ ParseNumeral(out.result, 10)
            = NatAdd(NatMul(NatOf64(Uint128High64(args.v)), NatPow2(64)),
                     NatOf64(Uint128Low64(args.v)))
       /\ (args.v = ZeroU128) <=> (out.result = <<"0">>)

\* 10^19: the low chunk is 0 and is written as nineteen zeros
C16_Witness ==
  /\ Returned("uint128_t::ToFormattedString")
  /\ args.flags.basefield = {"dec"}
  /\ args.v = Uint128FromU64(Ten19)
  /\ out.result = <<"1">> \o [i \in 1..19 |-> "0"]

\* the fixed chunk width of each base
ChunkWidth(flags) ==
  IF RenderBase(flags) = 16 THEN 15 ELSE IF RenderBase(flags) = 8 THEN 21 ELSE 19

DigitChars(flags) == IF flags.uppercase THEN UpperDigits ELSE LowerDigits

\* the base prefix that show-base asks for in front of a nonzero value
BasePrefix(flags) ==
  IF ~flags.showbase THEN <<>>
  ELSE IF RenderBase(flags) = 16 THEN <<"0", IF flags.uppercase THEN "X" ELSE "x">>
  ELSE IF RenderBase(flags) = 8 THEN <<"0">>
  ELSE <<>>

\* a chunk without padding, and zero-padded to the chunk width
PlainChunk(x, flags) == Numeral(Uint128Low64(x), RenderBase(flags), DigitChars(flags))

PaddedChunk(x, flags) ==
  [i \in 1..(ChunkWidth(flags) - Len(PlainChunk(x, flags))) |-> "0"]
    \o PlainChunk(x, flags)

\* the digits of the chunks c: the most significant nonzero chunk unpadded,
\* every later chunk padded
ChunkDigits(c, flags) ==
  IF c.high # ZeroU128
  THEN PlainChunk(c.high, flags) \o PaddedChunk(c.mid, flags) \o PaddedChunk(c.low, flags)
  ELSE IF c.mid # ZeroU128
  THEN PlainChunk(c.mid, flags) \o PaddedChunk(c.low, flags)
  ELSE PlainChunk(c.low, flags)

\* the number of characters of ChunkDigits
ChunkDigitsLen(c, flags) ==
  IF c.high # ZeroU128
  THEN Len(PlainChunk(c.high, flags)) + 2 * ChunkWidth(flags)
  ELSE IF c.mid # ZeroU128
  THEN Len(PlainChunk(c.mid, flags)) + ChunkWidth(flags)
  ELSE Len(PlainChunk(c.low, flags))

TwoTo64Numeral ==
  <<"1", "8", "4", "4", "6", "7", "4", "4", "0", "7",
    "3", "7", "0", "9", "5", "5", "1", "6", "1", "6">>

\* C17: the formatter emits the most-significant nonzero chunk without
\* zero-padding and every later chunk zero-padded to the fixed chunk width
\* (19 digits for decimal, 21 for octal, 15 for hex); MakeUint128(1, 0) in
\* decimal yields "18446744073709551616".
C17_ChunkPadding ==
  Returned("uint128_t::ToFormattedString")
    => /\ \E c \in {FormatChunks(args.v, FormatDiv(args.flags), NDEBUG)} :
            /\ out.result
                 = (IF args.v # ZeroU128 THEN BasePrefix(args.flags) ELSE <<>>)
                     \o ChunkDigits(c, args.flags)
            /\ Len(out.result)
                 = (IF args.v # ZeroU128 THEN Len(BasePrefix(args.flags)) ELSE 0)
                     + ChunkDigitsLen(c, args.flags)
       /\ (args.v = MakeUint128(U64(1), Zero64) /\ RenderBase(args.flags) = 10)
            => out.result = TwoTo64Numeral

\* 2^64 in decimal: the middle chunk 1 unpadded, then the low chunk
C17_Witness ==
  /\ Returned("uint128_t::ToFormattedString")
  /\ args.v = MakeUint128(U64(1), Zero64)
  /\ args.flags.basefield = {"dec"}
  /\ out.result = TwoTo64Numeral

\* the characters of s after the first n
DropFirst(s, n) == SubSeq(s, n + 1, Len(s))

\* C18: with show-base requested, the base prefix is emitted exactly once,
\* in front of the first emitted chunk, and never before a later zero-padded
\* chunk, for every nonzero value whether it takes one, two or three chunks;
\* with uppercase requested the hex prefix and the hex digits of all chunks
\* are upper-case; Format(255, hex, showBase, uppercase) yields "0XFF".
C18_BasePrefixOnce ==
  (/\ Returned("uint128_t::ToFormattedString")
   /\ args.flags.showbase
   /\ args.v # ZeroU128)
    => /\ Len(out.result) > Len(BasePrefix(args.flags))
       /\ SubSeq(out.result, 1, Len(BasePrefix(args.flags))) = BasePrefix(args.flags)
       /\ IsNumeral(DropFirst(out.result, Len(BasePrefix(args.flags))),
                    RenderBase(args.flags), DigitChars(args.flags))
       /\ ParseNumeral(DropFirst(out.result, Len(BasePrefix(args.flags))),
                       RenderBase(args.flags))
            = NatOf128(args.v)
       /\ (RenderBase(args.flags) = 16 /\ args.flags.uppercase)
            => /\ out.result[2] = "X"
               /\ \A i \in 3..Len(out.result) :
                    \E d \in 1..16 : out.result[i] = UpperDigits[d]
       /\ (/\ args.v = Uint128FromU64(U64(255))
           /\ RenderBase(args.flags) = 16
           /\ args.flags.uppercase)
            => out.result = <<"0", "X", "F", "F">>

\* 2^128 - 1 in upper-case hex with show-base: three chunks, one prefix
C18_Witness ==
  /\ Returned("uint128_t::ToFormattedString")
  /\ args.flags.showbase
  /\ args.flags.uppercase
  /\ args.flags.basefield = {"hex"}
  /\ args.v = MakeUint128(Max64, Max64)
  /\ out.result = <<"0", "X">> \o [i \in 1..32 |-> "F"]

\* the sign that int128_t::ToFormattedString is to write in decimal mode
SignPrefix(v, flags) ==
  IF IsNegativeInt128(v) THEN <<"-">>
  ELSE IF flags.showpos THEN <<"+">>
  ELSE <<>>

Int128MinNumeral ==
  <<"-", "1", "7", "0", "1", "4", "1", "1", "8", "3", "4", "6", "0", "4",
    "6", "9", "2", "3", "1", "7", "3", "1", "6", "8", "7", "3", "0", "3",
    "7", "1", "5", "8", "8", "4", "1", "0", "5", "7", "2", "8">>

\* C19: in decimal mode int128_t::ToFormattedString prepends '-' when the
\* value is negative, '+' when it is non-negative and show-positive-sign is
\* requested, nothing otherwise, and then prints the decimal numeral of the
\* magnitude; for Int128Min the result is
\* "-170141183460469231731687303715884105728".
C19_SignedDecimal ==
  (/\ Returned("int128_t::ToFormattedString")
   /\ args.flags.basefield \in {{"dec"}, {}})
    => /\ Len(out.result) > Len(SignPrefix(args.v, args.flags))
       /\ SubSeq(out.result, 1, Len(SignPrefix(args.v, args.flags)))
            = SignPrefix(args.v, args.flags)
       /\ IsNumeral(DropFirst(out.result, Len(SignPrefix(args.v, args.flags))),
                    10, LowerDigits)
       /\ ParseNumeral(DropFirst(out.result, Len(SignPrefix(args.v, args.flags))), 10)
            = NatAbsOfInt128(args.v)
       /\ args.v = Int128Min => out.result = Int128MinNumeral

\* Int128Min: the magnitude 2^127 is not an int128_t
C19_Witness ==
  /\ Returned("int128_t::ToFormattedString")
  /\ args.flags.basefield = {"dec"}
  /\ args.v = Int128Min
  /\ out.result = Int128MinNumeral

\* ---------------------------------------------------------------------------
\* C20: several threads each run DivMod, multiply and add on their own
\* operands and their own output locations, sharing only the read-only
\* dividend x.  Under every interleaving of their steps each thread obtains
\* the results it obtains when it runs alone (quotient y, remainder r,
\* z = y * v + r and the outcome of z != x), and no step reads or writes a
\* location owned by another thread; the shared dividend is only read.
\* ---------------------------------------------------------------------------

\* the results thread t holds at the end of its loop body
ThreadResults(t) ==
  [y |-> mem[LocalOf(t, "y")], r |-> mem[LocalOf(t, "r")],
   z |-> mem[LocalOf(t, "z")], error |-> threads[t].error]

ThreadAsAlone(t) ==
  ThreadResults(t) = RunAlone(TestDividend, mem[LocalOf(t, "v")], NDEBUG)

C20_ThreadsIndependent ==
  \* each step stays within the stepping thread's objects and the shared x
  /\ \A loc \in access.writes : Owner(loc) = access.thread
  /\ \A loc \in access.reads : Owner(loc) = access.thread \/ loc = SharedOf("x")
  /\ mem[SharedOf("x")] = TestDividend
  \* no call fails: every v is nonzero
  /\ \A t \in Threads :
       threads[t].pc \in {"start", "call", "quotient_ret", "remainder_ret",
                          "multiply", "add", "compare", "done"}
  \* the thread that has just finished holds the results of a run alone
  /\ (access.thread \in Threads /\ threads[access.thread].pc = "done")
       => ThreadAsAlone(access.thread)
  \* and so does every thread once all have finished, whatever the order
  /\ (\A t \in Threads : threads[t].pc = "done")
       => \A t \in Threads : ThreadAsAlone(t)

\* thread 1 finished its iteration for v = 2 after thread 2, working on
\* v = 2^24 - 1, had written its quotient and before it wrote its remainder
C20_Witness ==
  /\ access.thread = 1
  /\ threads[1].pc = "done"
  /\ threads[2].pc = "remainder_ret"
  /\ mem[LocalOf(1, "v")] = U64(2)
  /\ mem[LocalOf(2, "v")] = U64(16777215)
  /\ mem[LocalOf(1, "y")] = OperatorShl(Uint128FromInt(1), 119)
  /\ mem[LocalOf(1, "r")] = Uint128FromInt(0)
  /\ mem[LocalOf(1, "z")] = TestDividend
  /\ ~threads[1].error
  /\ mem[LocalOf(2, "y")] # mem[LocalOf(1, "y")]

\* ---------------------------------------------------------------------------
\* C30: CountLeadingZeros64Slow agrees with the hardware paths of
\* CountLeadingZeros64 on the whole 64-bit range: it returns 64 for 0 and
\* 63 - floor(log2(n)) for n >= 1, and the subscript applied to its
\* sixteen-entry literal is always in 0..15.
\* ---------------------------------------------------------------------------
C30_SlowClzAgrees ==
  (pc # "idle" /\ op = "CountLeadingZeros64Slow") =>
    /\ pc = "returned"
    /\ out.index \in 0..15
    /\ out.result = CountLeadingZeros64(args.n)
    /\ args.n = Zero64 => out.result = 64
    /\ args.n # Zero64 =>
         /\ out.result \in 0..63
         \* 2^(63 - result) <= n < 2^(64 - result)
         /\ NatLeq(NatPow2(63 - out.result), NatOf64(args.n))
         /\ NatLess(NatOf64(args.n), NatPow2(64 - out.result))

\* 2^40 + 1: subscript 1 after the shifts by 32 and 8, 23 zero bits
C30_Witness ==
  /\ pc = "returned"
  /\ op = "CountLeadingZeros64Slow"
  /\ args.n = Or64(Shl64(U64(1), 40), U64(1))
  /\ out.index = 1
  /\ out.result = 23

\* ---------------------------------------------------------------------------
\* C28: unsigned negation is bit-complement plus one: -v has low limb
\* ~lo(v) + 1 and high limb ~hi(v) plus a carry of 1 exactly when lo(v) is 0,
\* so -v = (2^128 - v) mod 2^128, -0 = 0 and v + (-v) = 0; and
\* UnsignedAbsoluteValue(x) is |x| for every signed x, 2^127 for Int128Min.
\* ---------------------------------------------------------------------------

C28_UnsignedNegation ==
  /\ (pc # "idle" /\ op = "uint128_t::operator-") =>
       /\ pc = "returned"
       /\ Uint128Low64(out.result) = Add64(Not64(Uint128Low64(args.v)), U64(1))
       /\ Uint128High64(out.result) =
            Add64(Not64(Uint128High64(args.v)),
                  IF Uint128Low64(args.v) = Zero64 THEN U64(1) ELSE U64(0))
       /\ NatOf128(out.result) = NatMod128(NatSub(NatPow2(128), NatOf128(args.v)))
       /\ args.v = Uint128FromInt(0) => out.result = Uint128FromInt(0)
       /\ out.sum = Uint128FromInt(0)
  /\ (pc # "idle" /\ op = "UnsignedAbsoluteValue") =>
       /\ pc = "returned"
       /\ NatOf128(out.result) = NatAbsOfInt128(args.v)
       /\ args.v = Int128Min => NatOf128(out.result) = NatPow2(127)

\* the absolute value of Int128Min
C28_Witness ==
  /\ pc = "returned"
  /\ op = "UnsignedAbsoluteValue"
  /\ args.v = Int128Min
  /\ out.result = MakeUint128(Bit63, Zero64)

\* ---------------------------------------------------------------------------
\* C23: in the portable operator<< and operator>>, for every amount in
\* [0, 128) every 64-bit machine shift that is executed has its count in
\* [0, 63]: no shift by 64 - amount when amount is 0, no shift by amount when
\* amount >= 64.
\* ---------------------------------------------------------------------------
C23_ShiftCountsInRange ==
  (pc # "idle" /\ op \in {"uint128_t::operator<<", "uint128_t::operator>>"}) =>
    /\ \A k \in 1..Len(out.shifts) : out.shifts[k] \in 0..63
    /\ args.amount = 0 => out.shifts = <<>>
    /\ args.amount >= 64 =>
         \A k \in 1..Len(out.shifts) : out.shifts[k] = args.amount - 64
    /\ args.amount \in 1..63 =>
         \A k \in 1..Len(out.shifts) : out.shifts[k] \in {args.amount, 64 - args.amount}

\* a right shift by 127: one machine shift, by 63
C23_Witness ==
  /\ pc = "returned"
  /\ op = "uint128_t::operator>>"
  /\ args.amount = 127
  /\ args.lhs = MakeUint128(Max64, Max64)
  /\ out.shifts = <<63>>
  /\ out.result = Uint128FromInt(1)

\* ---------------------------------------------------------------------------
\* C29: the signed and the unsigned formatter agree on the base for every
\* value of the basefield flags: whenever int128_t::ToFormattedString renders
\* the digits of a negative value in base 10 (basefield is neither exactly
\* hex nor exactly oct), the output is '-' followed by the decimal numeral of
\* the magnitude, never the numeral of the two's-complement bit pattern.
\* ---------------------------------------------------------------------------
C29_SignedBaseAgreement ==
  (/\ Returned("int128_t::ToFormattedString")
   /\ IsNegativeInt128(args.v)
   /\ RenderBase(args.flags) = 10)
    => /\ Len(out.result) > 1
       /\ out.result[1] = "-"
       /\ IsNumeral(DropFirst(out.result, 1), 10, LowerDigits)
       /\ ParseNumeral(DropFirst(out.result, 1), 10) = NatAbsOfInt128(args.v)

\* ---------------------------------------------------------------------------
\* C27: after the two DivMod calls of uint128_t::ToFormattedString, for each
\* of the three chunk divisors (10^19, 8^21, 16^15) the chunks high, mid and
\* low are each below 2^64 (mid < divisor, low < divisor,
\* high <= floor((2^128 - 1) / divisor^2)), so their low limbs hold them
\* whole, and v == (high * divisor + mid) * divisor + low.
\* ---------------------------------------------------------------------------

\* the chunk divisor as a number
NatFormatDiv(flags) ==
  IF flags.basefield = {"hex"} THEN NatPow2(60)
  ELSE IF flags.basefield = {"oct"} THEN NatPow2(63)
  ELSE NatMul(NatMul(NatLit(1000000000), NatLit(1000000000)), NatLit(10))

C27_ChunksFitLimb ==
  Returned("uint128_t::ToFormattedString") =>
    LET d == NatFormatDiv(args.flags)
        high == NatOf128(out.chunks.high)
        mid == NatOf128(out.chunks.mid)
        low == NatOf128(out.chunks.low)
    IN  /\ NatLess(mid, d)
        /\ NatLess(low, d)
        /\ NatLess(NatMul(NatMul(high, d), d), NatPow2(128))
        /\ NatLess(high, NatPow2(64))
        /\ NatLess(mid, NatPow2(64))
        /\ NatLess(low, NatPow2(64))
        /\ Uint128High64(out.chunks.high) = Zero64
        /\ Uint128High64(out.chunks.mid) = Zero64
        /\ Uint128High64(out.chunks.low) = Zero64
        /\ NatOf128(args.v) = NatAdd(NatMul(NatAdd(NatMul(high, d), mid), d), low)

\* 2^128 - 1 in decimal: three nonzero chunks, the high one 3
C27_Witness ==
  /\ Returned("uint128_t::ToFormattedString")
  /\ args.v = MakeUint128(Max64, Max64)
  /\ args.flags.basefield = {"dec"}
  /\ out.chunks.high = Uint128FromInt(3)
  /\ out.chunks.mid # Uint128FromInt(0)
  /\ out.chunks.low # Uint128FromInt(0)

\* ---------------------------------------------------------------------------
\* C21: construction of a uint128_t from a floating-point value truncates
\* toward zero: for every finite v with 0 <= v < 2^128, uint128_t(v) is
\* floor(v); for v >= 2^64 the high limb is trunc(v * 2^-64) and the low limb
\* is trunc(v - high * 2^64); for v < 2^64 the high limb is 0 and the low limb
\* is trunc(v).
\* ---------------------------------------------------------------------------

\* v * 2^FracBits for a finite v >= 0, as a number
NatFixedOf(v) == ShlDigits(NatOf64(v.mant), v.exp + FracBits)

\* floor(x / 2^k) of a fixed-point x, as a number
NatFloorShift(x, k) == ShrDigits(x, FracBits + k)

FloatArgInRange ==
  /\ args.v.class = "finite"
  /\ ~args.v.neg \/ args.v.mant = Zero64
  /\ NatLess(NatFloorShift(NatFixedOf(args.v), 0), NatPow2(128))

C21_FloatTruncates ==
  (pc # "idle" /\ op = "uint128_t::uint128_t(T) floating" /\ FloatArgInRange) =>
    LET x == NatFixedOf(args.v)
        high == NatFloorShift(x, 64)
    IN  /\ pc = "returned"
        /\ NatOf128(out.result) = NatFloorShift(x, 0)
        /\ NatOf64(Uint128High64(out.result)) = high
        /\ NatOf64(Uint128Low64(out.result))
             = NatFloorShift(NatSub(x, ShlDigits(high, FracBits + 64)), 0)
        /\ NatLess(NatFloorShift(x, 0), NatPow2(64))
             => /\ Uint128High64(out.result) = Zero64
                /\ NatOf64(Uint128Low64(out.result)) = NatFloorShift(x, 0)

\* a double above 2^64 and a double with a fraction
C21_Witness ==
  /\ pc = "returned"
  /\ op = "uint128_t::uint128_t(T) floating"
  /\ args.type = "double"
  /\ args.v = Finite(FALSE, Or64(Shl64(U64(1), 52), U64(1)), 75)
  /\ out.result = MakeUint128(Or64(Shl64(U64(1), 63), U64(2048)), Zero64)

\* ---------------------------------------------------------------------------
\* C22: whenever uint128_t::DivMod is called with divisor != 0, Fls128 is
\* never called with a zero argument: both calls are reached only when
\* dividend > divisor > 0, and the leading-zero count is only taken of a
\* nonzero limb, so both ABSL_INTERNAL_ASSUME conditions hold.
\* ---------------------------------------------------------------------------
C22_FlsArgumentNonzero ==
  (frame.pc # "idle" /\ frame.divisor0 # Uint128FromInt(0)) =>
    /\ frame.pc \notin {"assert", "undefined"}
    /\ \A k \in 1..Len(frame.fls) :
         /\ frame.fls[k] # Uint128FromInt(0)
         /\ Fls128Defined(frame.fls[k])
         /\ frame.clz[k] # Zero64
    /\ frame.fls # <<>> =>
         /\ NatLess(NatLit(0), NatOf128(frame.divisor0))
         /\ NatLess(NatOf128(frame.divisor0), NatOf128(frame.dividend0))

\* 2^64 divided by 1: Fls128 takes the high limb of the dividend and the
\* low limb of the divisor
C22_Witness ==
  /\ frame.pc = "loop"
  /\ frame.dividend0 = MakeUint128(U64(1), Zero64)
  /\ frame.divisor0 = Uint128FromInt(1)
  /\ frame.fls = <<frame.dividend0, frame.divisor0>>
  /\ frame.clz = <<U64(1), U64(1)>>
  /\ frame.locals.shift = 64

\* ---------------------------------------------------------------------------
\* C24: in uint128_t::DivMod past the two early returns,
\* shift = Fls128(dividend) - Fls128(divisor) satisfies 0 <= shift <= 127 and
\* left-aligning the divisor by shift loses no set bit:
\* (divisor << shift) >> shift == divisor, and the highest set bit of the
\* aligned divisor is at the index of the highest set bit of the dividend.
\* ---------------------------------------------------------------------------

\* the index of the highest set bit of the number x, 0 < x < 2^128
HighestBit(x) ==
  CHOOSE b \in 0..127 : NatLeq(NatPow2(b), x) /\ NatLess(x, NatPow2(b + 1))

C24_AlignmentLosesNoBit ==
  (frame.pc = "loop" /\ frame.iterations = 0) =>
    /\ frame.locals.shift \in 0..127
    /\ frame.locals.shift
         = HighestBit(NatOf128(frame.dividend0)) - HighestBit(NatOf128(frame.divisor0))
    /\ OperatorShr(frame.locals.denominator, frame.locals.shift) = frame.divisor0
    /\ NatOf128(frame.locals.denominator)
         = NatMul(NatOf128(frame.divisor0), NatPow2(frame.locals.shift))
    /\ HighestBit(NatOf128(frame.locals.denominator))
         = HighestBit(NatOf128(frame.dividend0))

\* 2^128 - 1 divided by 1: the divisor is moved up by 127 bits
C24_Witness ==
  /\ frame.pc = "loop"
  /\ frame.iterations = 0
  /\ frame.dividend0 = MakeUint128(Max64, Max64)
  /\ frame.divisor0 = Uint128FromInt(1)
  /\ frame.locals.shift = 127
  /\ frame.locals.denominator = MakeUint128(Bit63, Zero64)

\* ---------------------------------------------------------------------------
\* C25: loop invariant of the shift-subtract division.  At the start of
\* iteration i (0 <= i <= shift) of the loop of uint128_t::DivMod,
\* denominator == divisor * 2^(shift - i), the running dividend is
\* < 2 * denominator, and
\* original_dividend == quotient * divisor * 2^(shift - i + 1) + running
\* dividend; doubling the quotient never shifts out a set bit; on loop exit
\* the running dividend is < divisor and is returned as the remainder.
\* ---------------------------------------------------------------------------

\* quotient * divisor of the frame, as a number
FrameProduct == NatMul(NatOf128(frame.locals.quotient), NatOf128(frame.divisor0))

\* shift - i + 1: the power of two the product is still to be scaled by
FrameScale == frame.locals.shift - frame.locals.i + 1

\* original == product * 2^scale + running, with no wrapping
Reconstructs(original, product, scale, running) ==
  /\ NatLess(product, NatPow2(128 - scale))
  /\ original = NatAdd(ShlDigits(product, scale), running)

C25_LoopInvariant ==
  /\ (frame.pc = "loop" /\ frame.locals.i <= frame.locals.shift) =>
       /\ frame.locals.i >= 0
       /\ frame.locals.i = frame.iterations
       \* denominator == divisor * 2^(shift - i)
       /\ NatOf128(frame.locals.denominator)
            = ShlDigits(NatOf128(frame.divisor0), FrameScale - 1)
       /\ NatLess(NatOf128(frame.locals.dividend),
                  ShlDigits(NatOf128(frame.locals.denominator), 1))
       /\ Reconstructs(NatOf128(frame.dividend0), FrameProduct, FrameScale,
                       NatOf128(frame.locals.dividend))
       \* the bit shifted out by quotient <<= 1 is 0
       /\ NatLess(NatOf128(frame.locals.quotient), NatPow2(127))
  /\ (frame.pc = "loop" /\ frame.locals.i > frame.locals.shift) =>
       /\ frame.locals.i = frame.locals.shift + 1
       /\ NatLess(NatOf128(frame.locals.dividend), NatOf128(frame.divisor0))
       /\ Reconstructs(NatOf128(frame.dividend0), FrameProduct, 0,
                       NatOf128(frame.locals.dividend))
  /\ (frame.pc = "returned" /\ frame.iterations > 0) =>
       /\ frame.remainder_ret = frame.locals.dividend
       /\ frame.quotient_ret = frame.locals.quotient
       /\ NatLess(NatOf128(frame.remainder_ret), NatOf128(frame.divisor0))

\* 2^120 divided by 2^24 - 1 (the test's last divisor) in the middle of the
\* loop, after a subtraction
C25_Witness ==
  /\ frame.pc = "loop"
  /\ frame.dividend0 = MakeUint128(Shl64(U64(1), 56), Zero64)
  /\ frame.divisor0 = MakeUint128(Zero64, U64(16777215))
  /\ frame.locals.i = 30
  /\ frame.locals.shift = 97
  /\ frame.locals.quotient # Uint128FromInt(0)
  /\ frame.locals.dividend # frame.dividend0

\* ---------------------------------------------------------------------------
\* C26: uint128_t::DivMod terminates for every dividend and every divisor
\* != 0: it either returns at one of the two early exits or runs the
\* shift-subtract loop body exactly shift + 1 times, which is at most 128
\* iterations, and then writes the quotient and the remainder once each.
\* ---------------------------------------------------------------------------

\* the call of the frame has a nonzero divisor
FrameDivisorNonzero ==
  frame.pc # "idle" /\ frame.divisor0 # Uint128FromInt(0)

\* divisor >= dividend: the call leaves at one of the two early exits
FrameEarlyExit ==
  NatLeq(NatOf128(frame.dividend0), NatOf128(frame.divisor0))

\* the loop bodies run and the writes made, at every position of the call
FrameCounts ==
  FrameDivisorNonzero =>
    /\ frame.pc \in {"loop", "quotient_ret", "remainder_ret", "returned"}
    /\ frame.iterations <= 128
    /\ FrameEarlyExit => frame.iterations = 0 /\ frame.pc # "loop"
    /\ (~FrameEarlyExit /\ frame.pc = "loop") =>
         /\ frame.iterations <= frame.locals.shift + 1
         /\ frame.quotient_writes = 0
         /\ frame.remainder_writes = 0
    /\ (~FrameEarlyExit /\ frame.pc # "loop") =>
         /\ frame.iterations = frame.locals.shift + 1
         /\ frame.locals.shift + 1 <= 128
    /\ frame.pc = "quotient_ret" =>
         frame.quotient_writes = 0 /\ frame.remainder_writes = 0
    /\ frame.pc = "remainder_ret" =>
         frame.quotient_writes = 1 /\ frame.remainder_writes = 0
    /\ frame.pc = "returned" =>
         frame.quotient_writes = 1 /\ frame.remainder_writes = 1

C26_DivModTerminates ==
  /\ []FrameCounts
  /\ FrameDivisorNonzero ~> (frame.pc = "returned")

\* 2^128 - 1 divided by 1: the longest run, 128 loop bodies
C26_Witness ==
  /\ frame.pc = "returned"
  /\ frame.dividend0 = MakeUint128(Max64, Max64)
  /\ frame.divisor0 = Uint128FromInt(1)
  /\ frame.iterations = 128
  /\ frame.quotient_writes = 1
  /\ frame.remainder_writes = 1

====
